SPECIFICATION Spec
CONSTANT Midstream = TRUE
INVARIANTS TypeOK StateIsEarned
PROPERTY ImplementsConversation
