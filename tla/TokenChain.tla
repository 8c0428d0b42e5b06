----------------------------- MODULE TokenChain ------------------------------
(* What a team may rely on for a credential whose refresh tokens are redeemed *)
(* once: the stored token can be redeemed, or its successor is on its way to  *)
(* the database, until the chain breaks; from then on nothing but a new login *)
(* helps, and only then is the credential reported revoked.                   *)
(*                                                                            *)
(* No broker, lease or lock is mentioned: CredentialLease implements this for *)
(* Claude credentials, and TokenChain is all that a user of them needs.       *)

VARIABLES
    chain, \* "none" (no credential), "whole", "moving" or "broken"
    alarm  \* the credential is reported revoked

vars == <<chain, alarm>>

Init == chain \in {"none", "whole"} /\ alarm = FALSE

(* The stored token is redeemed and its successor not yet stored.             *)
Redeem == chain = "whole" /\ chain' = "moving" /\ UNCHANGED alarm

Store == chain = "moving" /\ chain' = "whole" /\ UNCHANGED alarm

(* The session ends at the provider, or a successor is lost.                  *)
Break == chain \in {"whole", "moving"} /\ chain' = "broken" /\ UNCHANGED alarm

Report == chain = "broken" /\ alarm' = TRUE /\ UNCHANGED chain

LogIn == chain' = "whole" /\ alarm' = FALSE

Disconnect == chain' = "none" /\ alarm' = FALSE

Next == Redeem \/ Store \/ Break \/ Report \/ LogIn \/ Disconnect

Spec == Init /\ [][Next]_vars
=============================================================================
