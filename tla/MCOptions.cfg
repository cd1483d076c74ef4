SPECIFICATION Spec
CONSTANTS
    Argument <- MCArgument
    MaxArguments = 3
INVARIANTS
    TypeOK
    
    
