------------------------- MODULE MCDependencyContainer -------------------------
EXTENDS DependencyContainer, TLC

CONSTANTS store, status, t1, t2

TwoTokens == {store, status}
StatusNeedsStore == [k \in Tokens |-> IF k = status THEN <<store>> ELSE <<>>]

\* One thread removes and shuts down while the other resolves and replaces.
RemoveAndReplace ==
  [t \in Threads |->
     IF t = t1 THEN {"resolve", "unregister", "shutdown"}
     ELSE {"resolve", "register"}]

==============================================================================
