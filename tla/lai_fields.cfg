SPECIFICATION Spec
CONSTANTS
    Fields <- MCFields
    Selectors <- MCSelectors
    Values <- MCValues
    Padding <- MCPadding
    IndexPort <- MCIndexPort
    DataPort <- MCDataPort
    BankPort <- MCBankPort
    Window <- MCWindow
INVARIANTS TypeOK ReadsAsWritten PaddingPreserved
