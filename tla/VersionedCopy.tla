----------------------------- MODULE VersionedCopy -----------------------------
(***************************************************************************)
(* What mirroring one published layer promises, with none of the fetching:  *)
(* a source publishes versions, a copy is replaced whole, and a claim says   *)
(* which version the copy is recorded as being.  The next poll reloads       *)
(* exactly when the source is past the claim, so the promise is that the     *)
(* claim is never ahead of the oldest row the copy holds: a publish can be   *)
(* fetched late, but it can never be believed fetched when it was not.       *)
(***************************************************************************)
EXTENDS Naturals

VARIABLES source, \* the version the source publishes now
          copy,   \* the versions the rows of the copy were read from
          claim   \* the version the copy is recorded as; 0 when none is

vars == <<source, copy, claim>>

Init ==
    /\ source = 1
    /\ copy = {}
    /\ claim = 0

Publish ==
    /\ source' = source + 1
    /\ UNCHANGED <<copy, claim>>

\* The copy changes only as a whole, and never back behind the claim.
Replace ==
    /\ copy' \in (SUBSET (claim..source)) \ {{}}
    /\ UNCHANGED <<source, claim>>

\* A claim is made only for rows that are there, and only moves forward.
Claim ==
    /\ copy # {}
    /\ claim' \in claim..source
    /\ \A v \in copy : claim' <= v
    /\ UNCHANGED <<source, copy>>

Next == Publish \/ Replace \/ Claim

Spec == Init /\ [][Next]_vars
================================================================================
