------------------------------- MODULE MCVMem -------------------------------
EXTENDS VMem

\* malloc hands out memory that was never used: all zero.
Zeroed == {EmptyRegion}

\* Processes and symbols are interchangeable: no definition orders them.
Symmetry == Permutations(Procs) \cup Permutations(Rgids)

\* The instruction executed last is a label of the step: no guard reads it.
Unlabelled == <<region_vars, page_vars, ram, swp, wild>>

\* No guard reads the contents of a frame either, so states that differ only
\* in those have the same future as far as regions and pages go.
PagingView == <<region_vars, page_vars, wild>>
=============================================================================
