-------------------------- MODULE MCManagedRuntime --------------------------
(***************************************************************************)
(* Three releases and two requests, which are interchangeable.  The file   *)
(* has what an export of an imported server says; a list without a last    *)
(* healthy release, with statuses and without; or an active release that   *)
(* is not in its list.                                                     *)
(***************************************************************************)
EXTENDS ManagedRuntime, TLC

Listing(active, last, status, gate) ==
    [active |-> active, last |-> last, gate |-> gate,
     status |-> [r \in Release |-> IF r \in DOMAIN status THEN status[r] ELSE "none"]]

Pairs == {p \in Release \X Release : p[1] # p[2]}

MCFiles ==
    {Listing(r, r, r :> "active", "rollback") : r \in Release}
    \union {Listing(r, None, r :> "unset", "off") : r \in Release}
    \union {Listing(p[1], None, p[1] :> "active" @@ p[2] :> "unset", "rollback") :
                p \in Pairs}
    \union {Listing(p[1], p[2], p[2] :> "healthy", "keep") : p \in Pairs}

Symmetry == Permutations(Request) \union Permutations(Release)
=============================================================================
