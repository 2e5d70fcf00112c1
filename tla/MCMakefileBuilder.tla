-------------------------- MODULE MCMakefileBuilder --------------------------
EXTENDS MakefileBuilder, TLC

Built(code, dependencies) ==
  [source |-> code, object |-> code, library |-> code, current |-> TRUE,
   dependencies |-> dependencies]

\* dune-py new, in use, or to be configured again; modules new, outdated, up to date,
\* or outdated with a header that was moved.
SomeDisks ==
  {[tag |-> FALSE, script |-> "none", aged |-> {}, files |-> [m \in Modules |-> NoFiles]]}
    \cup {[tag |-> known, script |-> "whole", aged |-> old, files |-> [m \in Modules |-> before]] :
            known \in BOOLEAN, old \in SUBSET Modules,
            before \in {NoFiles, Built("old", "listed"), Built("new", "listed"), Built("old", "gone")}}

\* Jobs only differ in what they ask for.
JobSymmetry == Permutations(Jobs)

=============================================================================
