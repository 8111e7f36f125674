----------------------------- MODULE MediaCache -----------------------------
(***************************************************************************)
(* MediaCache of src/src-tauri/src/media/cache.rs: bodies of two classes,  *)
(* each with a budget of its own, of which the least recently used go      *)
(* first.  The clock is the order of the entries of each class, which are  *)
(* never compared with those of the other.                                 *)
(***************************************************************************)
EXTENDS Naturals, FiniteSetsExt, Functions, Sequences

CONSTANTS
  Keys,
  Sizes,        \* the lengths of the bodies that are put
  MaxEntry,     \* MAX_ENTRY_BYTES
  LargeEntry,   \* LARGE_ENTRY_BYTES
  SmallBudget   \* SMALL_BUDGET_BYTES

\* A body that may be put fits the budget of its class.
ASSUME BudgetsAssumption ==
  /\ Sizes \subseteq Nat /\ MaxEntry \in Nat /\ LargeEntry \in Nat /\ SmallBudget \in Nat
  /\ LargeEntry <= SmallBudget

VARIABLES
  queue,   \* queue[c]: the keys of the entries of class c, by last_used
  size,    \* size[k]: the length of the body of entry k
  bytes,   \* MediaCache.bytes
  before   \* observer: <<j, k>> if entry j was last put or got before entry k

vars == <<queue, size, bytes, before>>

Classes == {"small", "large"}
Class(len) == IF len > LargeEntry THEN "large" ELSE "small"
Budget == [small |-> SmallBudget, large |-> 2 * MaxEntry]

Held == UNION {Range(queue[c]) : c \in Classes}
\* Bytes of the bodies of ks, each byte the key and its place.
Total(ks, length) == Cardinality({b \in ks \X (1..MaxEntry) : b[2] <= length[b[1]]})

TypeOK ==
  /\ queue \in [Classes -> Seq(Keys)] /\ \A c \in Classes : IsInjective(queue[c])
  /\ size \in [Keys -> 0..MaxEntry] /\ bytes \in [Classes -> Nat]
  /\ before \subseteq Held \X Held

Init ==
  /\ queue = [c \in Classes |-> <<>>]
  /\ size = [k \in Keys |-> 0]
  /\ bytes = [c \in Classes |-> 0]
  /\ before = {}

Without(q, k) ==
  IF k \notin Range(q) THEN q
  ELSE [i \in 1..(Len(q) - 1) |-> IF k \in Range(SubSeq(q, 1, i)) THEN q[i + 1] ELSE q[i]]

\* k is used now, by which time only `held` are held.
Used(k, held) ==
  before' = ({p \in before : k \notin {p[1], p[2]}} \cup (Keys \X {k}))
              \cap ((held \ {k}) \X held)

-----------------------------------------------------------------------------
\* (fault, for a mutant: an entry that is read keeps its place)
Untouched(q, k) == q
Touched(q, k) == Append(Without(q, k), k)

Get(k) ==
  /\ k \in Held
  /\ queue' = [queue EXCEPT ![Class(size[k])] = Touched(@, k)]
  /\ Used(k, Held)
  /\ UNCHANGED <<size, bytes>>

\* (fault, for a mutant: the old body of the key goes on counting)
FreedNothing(k) == bytes
\* remove: what the entry of k counted is given back.
Freed(k) == IF k \in Held THEN [bytes EXCEPT ![Class(size[k])] = @ - size[k]] ELSE bytes

\* The fewest of the oldest entries that, gone, bring the class within its budget.
Fewest(entries, length, used, budget) ==
  Min({n \in 0..Len(entries) :
         n = Len(entries) \/ used <= budget + Total(Range(SubSeq(entries, 1, n)), length)})

\* (fault, for a mutant: at most one entry is evicted)
OneEvicted(entries, length, used, budget) ==
  SubSeq(entries, IF used > budget THEN 2 ELSE 1, Len(entries))
\* (fault, for a mutant: the newest go first)
NewestEvicted(entries, length, used, budget) ==
  SubSeq(entries, 1, Len(entries) - Fewest(entries, length, used, budget))
\* evict: the entries that stay, when the oldest go first.
Evicted(entries, length, used, budget) ==
  SubSeq(entries, Fewest(entries, length, used, budget) + 1, Len(entries))

Put(k, len) ==
  /\ len <= MaxEntry
  /\ LET class == Class(len)
         length == [size EXCEPT ![k] = len]
         others == [c \in Classes |-> Without(queue[c], k)]
         entries == Append(others[class], k)
         used == [Freed(k) EXCEPT ![class] = @ + len]
         stay == Evicted(entries, length, used[class], Budget[class])
     IN /\ queue' = [others EXCEPT ![class] = stay]
        /\ size' = length
        /\ bytes' = [used EXCEPT ![class] =
                       @ - Total(Range(entries) \ Range(stay), length)]
        /\ Used(k, Held')

Clear ==
  /\ queue' = [c \in Classes |-> <<>>] /\ before' = {}
  /\ bytes' = [c \in Classes |-> 0]
  /\ UNCHANGED size

Next == Clear \/ \E k \in Keys : Get(k) \/ \E len \in Sizes : Put(k, len)

Spec == Init /\ [][Next]_vars

-----------------------------------------------------------------------------
(* Properties *)

\* The bytes counted are those of the entries held: however bodies are replaced by
\* others of either class, a counter neither drifts nor goes below zero.
BytesCounted ==
  \A c \in Classes : bytes[c] = Total({k \in Held : Class(size[k]) = c}, size)

\* Neither class takes more than its budget.
WithinBudget ==
  \A c \in Classes : Total({k \in Held : Class(size[k]) = c}, size) <= Budget[c]

\* An entry that goes, a clear apart, was used before every entry of its class that stays.
OldestGoFirst ==
  [][\A j \in Held \ Held', k \in Held' :
       Class(size[j]) = Class(size'[k])
       => <<j, k>> \in before \/ \A i \in Held' \ {k} : <<i, k>> \in before']_vars

\* A body that is put is held afterwards, whatever it drives out: what the proxy relies
\* on when it answers those that wait for the same key.
PutIsHeld == [][\A k \in Keys, len \in Sizes : Put(k, len) => k \in Held']_vars
=============================================================================
