---------------------------- MODULE TempoResources ----------------------------
(* The list of Tempo instances as pkg/api/tempo.go makes it out of the custom   *)
(* resources of a cluster.  A field of a resource may be absent or have a value *)
(* of another type than the one that is read.                                   *)
EXTENDS Naturals, Sequences, SequencesExt

CONSTANT Tenants

Absent == "absent"

Bad == "bad"

(* spec.tenants of a TempoStack, spec.multitenancy of a TempoMonolithic; only   *)
(* the latter has the field enabled.  entries are the tenant names of           *)
(* authentication, Bad for one without a name that is a string.                 *)
Specs == [enabled : {Absent, Bad, "true", "false"},
          mode : {Absent, Bad, "openshift", "static"},
          authentication : {Absent, Bad, "list"},
          entries : Seq(Tenants \union {Bad})]

Kinds == {"TempoStack", "TempoMonolithic"}

Resources == [kind : Kinds, spec : Specs]

Names(list) == [ok |-> TRUE, tenants |-> list]

Failed == [ok |-> FALSE, tenants |-> <<>>]

ExtractTenantNames(spec) ==
  CASE spec.authentication = Absent -> Names(<<>>)
    [] spec.authentication = Bad -> Failed
    [] spec.authentication = "list" ->
         IF Contains(spec.entries, Bad) THEN Failed ELSE Names(spec.entries)

(* The mode decides: without one the instance has a single tenant, and one that *)
(* is not "openshift" is an error.                                              *)
ReadTenancy(spec) ==
  CASE spec.mode = Absent -> Names(<<>>)
    [] spec.mode = "openshift" -> ExtractTenantNames(spec)
    [] OTHER -> Failed

ReadTenantsFromCR(r) ==
  CASE r.kind = "TempoStack" -> ReadTenancy(r.spec)
    [] r.kind = "TempoMonolithic" /\ r.spec.enabled = Bad -> Failed
    [] r.kind = "TempoMonolithic" /\ r.spec.enabled = "true" -> ReadTenancy(r.spec)
    [] OTHER -> Names(<<>>)

(* Mutant: without the fix for OU-467 instances without tenants are listed.     *)
ListedEvenIfSingle(r) == ReadTenantsFromCR(r).ok

(* Resources with an error and those without multi-tenancy are skipped.         *)
Listed(r) == ReadTenantsFromCR(r).ok /\ ReadTenantsFromCR(r).tenants # <<>>

(* What a reader of the resource takes for its tenants, stated without the      *)
(* code: openshift mode, switched on if there is a switch, a list of names.     *)
Declared(r) ==
  {t \in Tenants :
    /\ r.spec.mode = "openshift"
    /\ r.kind = "TempoMonolithic" => r.spec.enabled = "true"
    /\ r.spec.authentication = "list"
    /\ \E i \in DOMAIN r.spec.entries : r.spec.entries[i] = t}
================================================================================
