----------------------------- MODULE MCMPIGuard -----------------------------
EXTENDS MPIGuard

\* Three guarded sections: the first is ended by finalize(), the second by a
\* reactivate() of the active guard, the third by the destructor.
GuardedSections == <<"reactivate", "finalize", "reactivate", "reactivate">>

=============================================================================
