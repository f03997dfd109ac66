----------------------------- MODULE MCProxyCache ------------------------------
(* Instances of ProxyCache for TLC.  Goroutines are interchangeable, and so are *)
(* tenants: no definition tells them apart but by EscapedTenants.               *)
EXTENDS ProxyCache, TLC

CONSTANTS r1, r2, i1, t1, t2

Symmetry == Permutations({r1, r2}) \union Permutations({t1, t2})
================================================================================
