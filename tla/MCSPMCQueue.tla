----------------------------- MODULE MCSPMCQueue -----------------------------
EXTENDS SPMCQueue, TLC

\* Consumers run the same code, and values are only compared.
Symmetry == Permutations(Consumers) \cup Permutations(Value)

\* A producer whose every push has a value of its own: a slot that is written
\* again never gets what it held before, so that no overwriting goes unseen.
MCNext ==
  \/ PushBegin(Len(pushed) + 1)
  \/ PushReload \/ PushWrite \/ PushPublish
  \/ \E c \in Consumers : Consumer(c)

MCSpec == Init /\ [][MCNext]_vars /\ Fairness
=============================================================================
