------------------------------ MODULE MCSlice ------------------------------
(* SliceLock for model checking.                                            *)
EXTENDS SliceLock

\* Every combination of panic strategy, kind of mutex and habits of clients, but
\* those in which panics unwind, guards are forgotten and deref_mut panics: there
\* none of the properties but the type invariant has its condition met.
MCSettings ==
  {s \in [poisoning : BOOLEAN, panicAborts : BOOLEAN,
          forgetting : BOOLEAN, derefPanics : BOOLEAN] :
     s.panicAborts \/ ~s.forgetting \/ ~s.derefPanics}
=============================================================================
