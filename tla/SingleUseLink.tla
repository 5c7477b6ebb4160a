--------------------------- MODULE SingleUseLink ---------------------------
(***************************************************************************)
(* What a mailed link promises, whatever it is for: it is redeemed at most *)
(* once, and by nobody who presents it after a newer link has superseded   *)
(* it. Publishing a link supersedes earlier ones in the same step, and a   *)
(* redemption spends its link in the same step: at this level there are no *)
(* transactions, no clocks and no statements to interleave.                *)
(*                                                                         *)
(* Invitations and PasswordResets implement it.                            *)
(***************************************************************************)
CONSTANTS
    Links,
    Redeemers,  \* those who present a link, each once
    NoLink      \* the link of a redeemer who has not come yet

VARIABLES
    published,   \* links that exist
    superseded,  \* links a newer one has replaced
    presented,   \* presented[r]: the link redeemer r came with
    barred,      \* redeemers who came with a link that had been superseded
    spent,       \* links that have been redeemed
    redeemed     \* redeemers who were let through

vars == <<published, superseded, presented, barred, spent, redeemed>>

Init ==
    /\ published = {}
    /\ superseded = {}
    /\ presented = [r \in Redeemers |-> NoLink]
    /\ barred = {}
    /\ spent = {}
    /\ redeemed = {}

(* A new link, and which of the others it replaces. *)
Publish(l, old) ==
    /\ l \notin published
    /\ old \subseteq published
    /\ published' = published \cup {l}
    /\ superseded' = superseded \cup old
    /\ UNCHANGED <<presented, barred, spent, redeemed>>

Present(r, l) ==
    /\ presented[r] = NoLink
    /\ l \in published
    /\ presented' = [presented EXCEPT ![r] = l]
    /\ barred' = barred \cup {x \in {r} : l \in superseded}
    /\ UNCHANGED <<published, superseded, spent, redeemed>>

Redeem(r) ==
    /\ presented[r] \in published \ spent
    /\ r \notin barred \cup redeemed
    /\ spent' = spent \cup {presented[r]}
    /\ redeemed' = redeemed \cup {r}
    /\ UNCHANGED <<published, superseded, presented, barred>>

Next ==
    \/ \E l \in Links : \E old \in SUBSET published : Publish(l, old)
    \/ \E r \in Redeemers :
        \/ \E l \in Links : Present(r, l)
        \/ Redeem(r)

Spec == Init /\ [][Next]_vars
=============================================================================
