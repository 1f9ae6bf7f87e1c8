---------------------------- MODULE MCLaiFields ----------------------------
(***************************************************************************)
(* A chip with an index register at port 0, its data register at port 1, a *)
(* bank register in the low bits of port 2, a banked window at port 3 and  *)
(* ordinary registers above; memory-mapped registers at 0.                 *)
(***************************************************************************)
EXTENDS LaiFields

Port(n) == <<"IO", << >>, n>>
MCIndexPort == Port(0)
MCDataPort == Port(1)
MCBankPort == Port(2)
MCWindow == {Port(3)}

Plain(space, access, offset, size) ==
    [type |-> "FIELD", region |-> [space |-> space, unit |-> << >>, base |-> 0],
     access |-> access, update |-> "PRESERVE", offset |-> offset, size |-> size]
Indexed(offset, size) ==
    [type |-> "INDEXFIELD", index |-> Plain("IO", 8, 0, 8), data |-> Plain("IO", 8, 8, 8),
     access |-> 8, update |-> "PRESERVE", offset |-> offset, size |-> size]
Banked(value, offset, size) ==
    [type |-> "BANKFIELD", region |-> [space |-> "IO", unit |-> << >>, base |-> 3], bank |-> Plain("IO", 0, 16, 2),
     value |-> value, access |-> 8, update |-> "PRESERVE", offset |-> offset, size |-> size]

\* Fields that cross bytes and words, share words with others and start inside a byte; LNG
\* fills its second word.
MCFields ==
    [IDX |-> Plain("IO", 8, 0, 8),
     BNK |-> Plain("IO", 0, 16, 2),
     CFG |-> Plain("IO", 8, 18, 3),
     R01 |-> Indexed(4, 10),
     R00 |-> Indexed(0, 4),
     BA1 |-> Banked(1, 1, 3),
     BA2 |-> Banked(2, 1, 3),
     WID |-> Plain("IO", 16, 45, 7),
     MEM |-> [Plain("MEMORY", 0, 3, 18) EXCEPT !.update = "WRITE_ZEROES"],
     LNG |-> [Plain("MEMORY", 32, 62, 36) EXCEPT !.update = "WRITE_ONES"]]
MCSelectors == {"IDX", "BNK"}

Some(n) == {{}, 0 .. MCFields[n].size - 1}
MCValues ==
    [n \in DOMAIN MCFields |->
        CASE n = "IDX" -> {{0, 1}}
          [] n = "LNG" -> {0 .. 35}
          [] n = "R01" -> {{}, 0 .. MCFields[n].size, {0, 4}}
          [] OTHER -> Some(n)]

\* Around CFG, R01, the banks and WID.
MCPadding ==
    {<<Port(2), 6>>, <<Port(5), 4>>, <<Port(6), 5>>, <<<<"register", {0}>>, 7>>}
    \cup {<<<<"bank", b, Port(3)>>, i>> : b \in {{0}, {1}}, i \in {0, 4}}
=============================================================================
