-------------------------- MODULE MCNativeDelivery --------------------------
(***************************************************************************)
(* Instances of NativeDelivery for TLC.                                    *)
(***************************************************************************)
EXTENDS NativeDelivery

\* The constants the assumptions of NativeDelivery determine.
MCCapabilities == {Build, Publish}
MCKeys == (Deliveries \union Requests) \X MCCapabilities

\* A bound: either the delivery or the standalone request is made, not both.
OneOfThem == Requested = {} \/ \A r \in Requests : JobsOf(<<r, Build>>) = {}
=============================================================================
