SPECIFICATION Spec
CONSTANTS
    None = None
    MaxInt = 32767
    Quantities = {"50m", "64Mi", "1Gi"}
INVARIANT EveryReplicaCounted
INVARIANT SpellingsAgree
INVARIANT WrappingIsTight
INVARIANT CardsShowDecisions
