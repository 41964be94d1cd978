----------------------------- MODULE MCBuildSet -----------------------------
(***************************************************************************)
(* Three modules: a framework with an API crate and two drivers.  The sets *)
(* differ from a good one in what build_set has to notice.                 *)
(***************************************************************************)
EXTENDS BuildSet
CONSTANTS framework, blk, net

Nothing == [m \in Module |-> {}]
On(S, T) == [m \in Module |-> IF m \in S THEN T ELSE {}]

\* The drivers are listed first, need the framework, and net comes after blk.
Good == [listing |-> <<net, blk, framework>>, active |-> Module,
         depends |-> On({blk, net}, {framework}), after |-> On({net}, {blk}),
         named |-> Module, api |-> {framework}, uses |-> On({blk, net}, {framework})]

\* The drivers are independent of the framework on this target; net comes
\* after it where it exists.
Inactive == [Good EXCEPT !.active = {blk, net}, !.depends = Nothing, !.uses = Nothing,
                         !.after = On({net}, {framework, blk})]
NeedsInactive == [Good EXCEPT !.active = {blk, net}]
Cyclic == [Good EXCEPT !.after = On({framework}, {net})]
Undeclared == [Good EXCEPT !.depends = Nothing]
Misnamed == [Good EXCEPT !.named = {framework, net}]

OneSet == {Good}
AllSets == {Good, Inactive, NeedsInactive, Cyclic, Undeclared, Misnamed}
=============================================================================
