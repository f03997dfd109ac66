--------------------------- MODULE MCTempoSelection ---------------------------
(* A stack and a TempoMonolithic of one name, and another TempoMonolithic; with *)
(* two tenants, with none, with one (which the TempoMonolithic switches off),   *)
(* and with a broken entry.                                                     *)
EXTENDS TempoSelection

MCObjects == {[kind |-> "TempoStack", instance |-> "ns/a"],
              [kind |-> "TempoMonolithic", instance |-> "ns/a"],
              [kind |-> "TempoMonolithic", instance |-> "ns/b"]}

OfTenants(list) == [enabled |-> "true", mode |-> "openshift",
                    authentication |-> "list", entries |-> list]

MCSpecOf == [s \in Shapes |->
  CASE s = "two"    -> OfTenants(<<"dev", "prod">>)
    [] s = "empty"  -> OfTenants(<<>>)
    [] s = "off"    -> [OfTenants(<<"prod">>) EXCEPT !.enabled = "false"]
    [] s = "broken" -> OfTenants(<<"dev", Bad>>)]
================================================================================
