----------------------------- MODULE KeyedSet -----------------------------
(***************************************************************************)
(* What an ordered set of the network helper promises its users            *)
(* (packet_bucket.c, network_manager.c): a set with at most one element    *)
(* per key, each call answered according to what the set is when it        *)
(* returns.  OrdSet is the array with its binary search that implements it.*)
(***************************************************************************)
EXTENDS Integers

CONSTANTS Keys, Tags, Ops

Elements == Keys \X Tags
NoElem == << >>
Key(e) == e[1]

VARIABLES
  content,  \* the elements
  busy,     \* TRUE during a call
  op, el,   \* the call and its argument
  ret       \* what the last call returned

vars == <<content, busy, op, el, ret>>

Same(e) == {x \in content : Key(x) = Key(e)}
Above(e) == {x \in content : Key(x) > Key(e)}
Below(e) == {x \in content : Key(x) < Key(e)}

(* The one element of S, or none.                                          *)
Sole(S) == IF S = {} THEN NoElem ELSE CHOOSE x \in S : TRUE
Lowest(S) == Sole({x \in S : \A y \in S : Key(x) <= Key(y)})
Highest(S) == Sole({x \in S : \A y \in S : Key(x) >= Key(y)})

Init == content = {} /\ ~busy /\ op \in Ops /\ el \in Elements /\ ret = NoElem

Call ==
  /\ ~busy
  /\ busy' = TRUE
  /\ op' \in Ops
  /\ el' \in Elements
  /\ UNCHANGED <<content, ret>>

Return ==
  /\ busy
  /\ busy' = FALSE
  /\ UNCHANGED <<op, el>>
  /\ \/ op = "find" /\ ret' = Sole(Same(el)) /\ UNCHANGED content
     \/ op = "insert" /\ ret' = (IF Same(el) = {} THEN el ELSE Sole(Same(el)))
                      /\ content' = content \union {ret'}
     \/ op = "override" /\ ret' = el /\ content' = (content \ Same(el)) \union {el}
     \/ op = "remove" /\ ret' = Sole(Same(el)) /\ content' = content \ Same(el)
     \/ op = "iter" /\ ret' = Lowest(Above(el)) /\ UNCHANGED content
     \/ op = "prev" /\ ret' = Highest(Below(el)) /\ UNCHANGED content

(* The start of an iteration, answered at once.                            *)
First ==
  /\ ~busy
  /\ ret' = Lowest(content)
  /\ UNCHANGED <<content, busy, op, el>>

Spec == Init /\ [][Call \/ Return \/ First]_vars
=============================================================================
