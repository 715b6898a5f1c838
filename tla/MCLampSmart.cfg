SPECIFICATION MCSpec
CONSTANTS
    Rounds = 4
    Variants <- MCVariants
    Commands <- MCCommands
    Turns <- MCTurns
    Randoms <- MCRandoms
    Signature <- MCSignature
    Profile <- MCProfile
INVARIANTS OnAirIsKnown NightOnce SentIsSent
           Understood VariantsAgree
