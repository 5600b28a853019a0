---------------------------- MODULE TokenFamily ----------------------------
(* What the rotating refresh tokens promise. A family is what one login opens: it has at most
   one token that can be exchanged, an exchange replaces that token by one that nobody has seen
   before and names it as the only heir of the token spent, and a family that has ended neither
   exchanges nor opens again. *)
EXTENDS Naturals

CONSTANTS Families, Tokens,
          NoToken    \* not one of Tokens

VARIABLES valid,   \* the token a family can exchange
          seen,    \* the tokens that have been given out
          heir,    \* the token each spent token was exchanged for
          ended    \* the families that are over

familyVars == <<valid, seen, heir, ended>>

FamilyInit == /\ valid = [f \in Families |-> NoToken] /\ seen = {} /\ ended = {}
              /\ heir = [t \in Tokens |-> NoToken]

Open(f) == /\ f \notin ended /\ valid[f] = NoToken
           /\ \E t \in Tokens \ seen :
                /\ valid' = [valid EXCEPT ![f] = t]
                /\ seen' = seen \cup {t}
           /\ UNCHANGED <<heir, ended>>

Exchange(f) == /\ valid[f] # NoToken
               /\ \E t \in Tokens \ seen :
                    /\ valid' = [valid EXCEPT ![f] = t]
                    /\ heir' = [heir EXCEPT ![valid[f]] = t]
                    /\ seen' = seen \cup {t}
               /\ UNCHANGED ended

End(F) == /\ valid' = [f \in Families |-> IF f \in F THEN NoToken ELSE valid[f]]
          /\ ended' = ended \cup F
          /\ UNCHANGED <<seen, heir>>

FamilyNext == (\E f \in Families : Open(f) \/ Exchange(f)) \/ (\E F \in SUBSET Families : End(F))

FamilySpec == FamilyInit /\ [][FamilyNext]_familyVars
=============================================================================
