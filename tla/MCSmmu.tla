------------------------------- MODULE MCSmmu -------------------------------
(***************************************************************************)
(* An instance of Smmu: two streams, the second given to one VM and then   *)
(* to another, a region of another SMMU, an illegal region at the end.     *)
(***************************************************************************)
EXTENDS Smmu

Vms == {"vm1", "vm2"}

Region(v, id, ids) == [vm |-> v, smmu_id |-> id, stream_ids |-> ids]

\* The last stream id is out of range.
BadSid == <<Region("vm1", 0, <<1>>), Region("vm2", 7, <<0>>), Region("vm2", 0, <<1, 2>>)>>

\* The last region has no streams.
NoStreams == <<Region("vm1", 0, <<0, 1>>), Region("vm2", 0, <<1>>), Region("vm2", 0, <<>>)>>

Alternatives == {BadSid, NoStreams}

\* A valid entry that no configuration of the driver equals.
Garbage == [dw0 |-> "stg2", dw1 |-> "none", dw2 |-> "none", dw3 |-> "old"]
=============================================================================
