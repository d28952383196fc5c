------------------------------ MODULE KmsHealth ------------------------------
(***************************************************************************)
(* The health of the primary KMS (hf2_kms/health.rs): MultiChannelHealth,  *)
(* whose statuses are set one by one, and ConsensusHealthChecker, which    *)
(* probes all its channels at once.  The outcome of a probe is an input.   *)
(***************************************************************************)
EXTENDS Integers, FiniteSets, SequencesExt

CONSTANTS
  Channels,   (* channel identifiers                                       *)
  Threshold   (* of ConsensusHealthChecker                                 *)

ASSUME HealthAssumption == Threshold \in Nat

VARIABLES
  probed,    (* the channels the consensus checker was built with          *)
  verdict,   (* what its last check said of the quorum; "Unknown" before it *)
             (* and once a status was set by somebody else                 *)
  channels,  (* MultiChannelHealth                                         *)
  last       (* what was last said of each channel                         *)

health == <<probed, verdict, channels, last>>

Statuses == {"Healthy", "Failing", "Unknown"}

Outcomes == {"Healthy", "Failing", "Error"}

-----------------------------------------------------------------------------
(* set_status: the first entry of the channel, or a new one.               *)
SetStatus(cs, ch, status) ==
  LET i == SelectInSeq(cs, LAMBDA c : c.channel = ch)
      entry == [channel |-> ch, status |-> status]
  IN  IF i = 0 THEN Append(cs, entry) ELSE [cs EXCEPT ![i] = entry]

Votes(cs, status) == Cardinality({i \in DOMAIN cs : cs[i].status = status})

(* Mutant: more than the threshold must fail.                              *)
IsQuorumFailingStrictly(cs, threshold) == Votes(cs, "Failing") > threshold

(* MultiChannelHealth::is_quorum_failing                                   *)
IsQuorumFailing(cs, threshold) == Votes(cs, "Failing") >= threshold

HealthyCount(cs) == Votes(cs, "Healthy")

(* A probe that errs counts as failing.                                    *)
Status(outcome) == IF outcome = "Error" THEN "Failing" ELSE outcome

(* ConsensusHealthChecker::check on what its probes return.                *)
PerChannel(list, outcomes) ==
  [i \in DOMAIN list |-> [channel |-> list[i], status |-> Status(outcomes[i])]]

(* Reports put into the aggregator one after the other.                    *)
Reported(cs, said, reports) ==
  LET after[k \in 0 .. Len(reports)] ==
        IF k = 0 THEN [channels |-> cs, last |-> said]
        ELSE [channels |-> SetStatus(after[k - 1].channels,
                                     reports[k].channel, reports[k].status),
              last |-> [after[k - 1].last EXCEPT ![reports[k].channel] = reports[k].status]]
  IN  after[Len(reports)]

-----------------------------------------------------------------------------
(* A checker and an aggregator for the same list.                          *)
Watches(list) ==
  /\ probed = list
  /\ verdict = "Unknown"
  /\ channels = [i \in DOMAIN list |-> [channel |-> list[i], status |-> "Unknown"]]
  /\ last = [ch \in Channels |-> "Unknown"]

(* A status is set from outside, for instance from a metric.               *)
SetChannel(ch, status) ==
  /\ channels' = SetStatus(channels, ch, status)
  /\ last' = [last EXCEPT ![ch] = status]
  /\ verdict' = "Unknown"
  /\ UNCHANGED probed

(* The checker probes its channels, and the results are reported.          *)
Check(outcomes) ==
  LET results == PerChannel(probed, outcomes)
      after == Reported(channels, last, results)
  IN  /\ verdict' = IF Votes(results, "Failing") >= Threshold THEN "Failing" ELSE "Healthy"
      /\ channels' = after.channels
      /\ last' = after.last
      /\ UNCHANGED probed

HealthInit == \E list \in Seq(Channels) : Watches(list)

HealthNext ==
  \/ \E ch \in Channels, status \in Statuses : SetChannel(ch, status)
  \/ \E outcomes \in [DOMAIN probed -> Outcomes] : Check(outcomes)

HealthSpec == HealthInit /\ [][HealthNext]_health
-----------------------------------------------------------------------------
(***************************************************************************)
(* The quorum counts of MultiChannelHealth count channels: each channel    *)
(* has one vote, that of the last status reported for it, also where the   *)
(* list was built with a channel twice, as with two DNS-over-HTTPS         *)
(* providers, or a channel came up that was not on the list.  And the two  *)
(* counts of one probe round agree: when the aggregator calls the quorum   *)
(* failing the consensus checker does, and for channels that are listed    *)
(* once and no other channel in the aggregator also the other way round.   *)
(***************************************************************************)
QuorumsAgree ==
  LET aggregated == IsQuorumFailing(channels, Threshold)
      listed == {probed[i] : i \in DOMAIN probed}
      same == {channels[i].channel : i \in DOMAIN channels} = listed
      once == Cardinality(listed) = Len(probed)
  IN  /\ \A status \in {"Healthy", "Failing"} :
           Votes(channels, status) = Cardinality({ch \in Channels : last[ch] = status})
      /\ verdict # "Unknown" /\ same =>
           /\ aggregated => verdict = "Failing"
           /\ once => (aggregated <=> verdict = "Failing")
=============================================================================
