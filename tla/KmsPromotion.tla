----------------------------- MODULE KmsPromotion -----------------------------
(***************************************************************************)
(* The promotion of a standby worker when the primary KMS is down:         *)
(* evaluate_auto_promote and the state of ProjectionRouter (projection.rs) *)
(* over the health of the primary's channels (KmsHealth), shares of the    *)
(* authorization token (ThresholdSharing) and the journal of the tokens    *)
(* consumed (DoctorJournal).                                               *)
(*                                                                         *)
(* The coordinator that calls them is not in the repository.  It does what *)
(* their documentation says of it: it acts on evaluate_auto_promote at     *)
(* once, and under threshold_hsm it combines the shares it was given,      *)
(* compares the result with the token that was issued, and appends the     *)
(* token to the journal before it promotes.  Probes, operators and the     *)
(* projections that may refuse a state are the environment.                *)
(***************************************************************************)
EXTENDS DoctorJournal, ThresholdSharing, KmsHealth

CONSTANTS
  Operators,    (* indices of the share holders                            *)
  Secrets,      (* tokens that may be issued, in bytes                     *)
  Coefficients, (* what the entropy source may return for a secret         *)
  Registered,   (* channel lists that a checker may be built with          *)
  Hour,         (* 60 minutes                                              *)
  MaxDown,      (* bound: the outage is counted up to here                 *)
  MaxIssues,    (* bound: tokens issued                                    *)
  MaxHand       (* bound: shares held by the coordinator                   *)

ASSUME PromotionAssumption ==
  /\ Operators \subseteq 1 .. N
  /\ Registered \subseteq Seq(Channels)
  /\ Hour \in Nat /\ MaxDown \in Nat
  /\ MaxIssues \in Nat /\ MaxHand \in Nat

VARIABLES
  policy,    (* audit.kms_auto_promote of the manifest                     *)
  state,     (* ObserverState of the standby                               *)
  down,      (* how long the primary has been down                         *)
  issued,    (* the tokens split so far, the last one in force             *)
  hand       (* the shares the coordinator was given                       *)

sharing == <<issued, hand>>

vars == <<policy, state, down, health, sharing, journal>>

Policies == {"manual", "after_60min", "threshold_hsm", "unrecognised"}

ObserverStates == {"Passive", "Active", "Draining"}

-----------------------------------------------------------------------------
Hf2HealthQuorumMin == 2

ThresholdReady == Len(hand) >= T

(* evaluate_auto_promote                                                   *)
Decision ==
  CASE policy = "manual" -> "Wait"
    [] policy = "after_60min" ->
         IF down >= Hour /\ HealthyCount(channels) >= Hf2HealthQuorumMin
           THEN "Promote" ELSE "Wait"
    [] policy = "threshold_hsm" -> IF ThresholdReady THEN "Promote" ELSE "Wait"
    [] OTHER -> "None"

(* transition: Draining is terminal, and a projection may refuse.          *)
Transition(next) == state # "Draining" /\ state' = next

TransitionFails == UNCHANGED state

-----------------------------------------------------------------------------
(* Health and outage are followed where the policy asks for them.          *)
Watched == policy = "after_60min"

Init ==
  /\ policy \in Policies
  /\ state = "Passive"
  /\ down = 0
  /\ \E list \in IF Watched THEN Registered ELSE {<<>>} : Watches(list)
  /\ issued = <<>> /\ hand = <<>>
  /\ JournalInit

(* A status is set, or the channels are probed.                            *)
HealthReported ==
  /\ Watched
  /\ HealthNext
  /\ UNCHANGED <<policy, state, down, sharing, journal>>

PrimaryStaysDown ==
  /\ Watched /\ down < MaxDown
  /\ down' = down + 1
  /\ UNCHANGED <<policy, state, health, sharing, journal>>

PrimaryRecovers ==
  /\ Watched
  /\ down' = 0
  /\ UNCHANGED <<policy, state, health, sharing, journal>>

(* evaluate_auto_promote answers Promote, and the worker is promoted.      *)
PromoteAfterOutage ==
  /\ policy = "after_60min" /\ Decision = "Promote"
  /\ Transition("Active") \/ TransitionFails
  /\ UNCHANGED <<policy, down, health, sharing, journal>>

-----------------------------------------------------------------------------
(* split_secret under a policy that uses the shares.                       *)
Issue(secret, coeffs) ==
  /\ policy = "threshold_hsm" /\ Len(issued) < MaxIssues
  /\ issued' = Append(issued, [secret |-> secret, coeffs |-> coeffs])
  /\ UNCHANGED <<policy, state, down, health, hand, journal>>

(* An operator hands in a share: of the token in force or of one before    *)
(* it, perhaps twice, perhaps misread in its first byte.                   *)
HandIn(op, k, misread) ==
  LET share == Split(issued[k].secret, issued[k].coeffs)[op]
  IN  /\ k \in DOMAIN issued /\ Len(hand) < MaxHand
      /\ hand' = Append(hand,
           [index |-> op, issue |-> k, intact |-> ~misread,
            bytes |-> IF misread THEN [share.bytes EXCEPT ![1] = GfAdd(@, 1)]
                                 ELSE share.bytes])
      /\ UNCHANGED <<policy, state, down, health, issued, journal>>

(* Mutant: what the shares combine to is not compared.                     *)
OpensUncompared == CombineError(hand) = "None"

(* The shares of the hand give the token in force.                         *)
Opens == /\ CombineError(hand) = "None"
         /\ Combine(hand) = issued[Len(issued)].secret

(* The token is consumed, then the worker is promoted.                     *)
PromoteByToken(tick, signer) ==
  /\ policy = "threshold_hsm" /\ Decision = "Promote" /\ Opens
  /\ Consume([token_hash |-> issued[Len(issued)].secret, tick |-> tick], signer)
  /\ Transition("Active") \/ TransitionFails
  /\ hand' = <<>>
  /\ UNCHANGED <<policy, down, health, issued>>

(* The shares do not combine, combine to something else, or to a token     *)
(* that was consumed before: the coordinator starts over.                  *)
PromoteByTokenRefused(tick) ==
  /\ policy = "threshold_hsm" /\ Decision = "Promote"
  /\ Opens => ConsumeRefused([token_hash |-> issued[Len(issued)].secret, tick |-> tick])
  /\ hand' = <<>>
  /\ UNCHANGED <<policy, state, down, health, issued, journal>>

-----------------------------------------------------------------------------
(* promote_to_active, demote_to_passive and begin_draining by an operator. *)
OperatorMoves(next) ==
  /\ Transition(next)
  /\ UNCHANGED <<policy, down, health, sharing, journal>>

Next ==
  \/ HealthReported \/ PrimaryStaysDown \/ PrimaryRecovers \/ PromoteAfterOutage
  \/ \E secret \in Secrets, coeffs \in Coefficients : Issue(secret, coeffs)
  \/ \E op \in Operators, k \in 1 .. MaxIssues, misread \in BOOLEAN :
       HandIn(op, k, misread)
  \/ \E tick \in Ticks :
       \/ \E signer \in Signers : PromoteByToken(tick, signer)
       \/ PromoteByTokenRefused(tick)
  \/ \E next \in ObserverStates : OperatorMoves(next)

Spec == Init /\ [][Next]_vars
-----------------------------------------------------------------------------
(***************************************************************************)
(* "any config.t of them suffice": the first T shares handed in give the   *)
(* secret when they are of one split, whoever their holders are and in     *)
(* whatever order, and a single misread one changes what comes out.        *)
(***************************************************************************)
AnyQuorumOpens ==
  LET used  == {hand[i] : i \in 1 .. T}
      wrong == {share \in used : ~share.intact}
  IN  Len(hand) >= T =>
        \A k \in DOMAIN issued :
          CombineError(hand) = "None" /\ (\A share \in used : share.issue = k) =>
            /\ wrong = {} => Combine(hand) = issued[k].secret
            /\ Cardinality(wrong) = 1 => Combine(hand) # issued[k].secret

(***************************************************************************)
(* combine_shares does not tell the shares of one split from those of      *)
(* another, nor a share from a misread one, and ThresholdReady counts      *)
(* shares without looking at them.  All the same the token in force is     *)
(* consumed, and a worker promoted by it, only when T different holders    *)
(* have handed in the shares of that token as they were issued; and        *)
(* without a token only after an hour of outage with two different         *)
(* channels last reported healthy.                                         *)
(***************************************************************************)
PromotionIsEarned ==
  [][/\ entries' # entries =>
          LET genuine == {i \in DOMAIN hand :
                            hand[i].intact /\ issued[hand[i].issue] = issued[Len(issued)]}
          IN  Cardinality({hand[i].index : i \in genuine}) >= T
     /\ PromoteAfterOutage =>
          /\ down >= Hour
          /\ Cardinality({ch \in Channels : last[ch] = "Healthy"}) >= Hf2HealthQuorumMin
    ]_vars
=============================================================================
