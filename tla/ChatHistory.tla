---------------------------- MODULE ChatHistory ----------------------------
(***************************************************************************)
(* internal/chat/repository.go and HandleHistory: a session's messages in  *)
(* pages, newest page first, each older than a cursor.  A message is       *)
(* anything that stamp gives a created_at; among equal ones PostgreSQL may *)
(* return any.                                                             *)
(***************************************************************************)
EXTENDS Integers, FiniteSets, FiniteSetsExt

CONSTANTS
  DefaultLimit,  \* 50
  MaxLimit,      \* 100
  MaxRows,       \* bound: messages of a session in the table
  Times          \* bound: values of created_at

ASSUME HistoryAssumption ==
  /\ DefaultLimit \in Nat \ {0} /\ MaxLimit \in Nat
  /\ DefaultLimit <= MaxLimit
  /\ Times \subseteq Nat /\ \E latest \in Times : \A t \in Times : t <= latest
  /\ MaxRows \in Nat

(* GetHistory: any integer may be asked for.                               *)
Limit(asked) == IF asked <= 0 \/ asked > MaxLimit THEN DefaultLimit ELSE asked

(* WHERE created_at < before.                                              *)
Older(messages, stamp, before) == {m \in messages : stamp[m] < before}

(* Mutant: the oldest messages instead. *)
OldestPages(messages, stamp, before, asked) ==
  LET older == Older(messages, stamp, before) IN
  {page \in SUBSET older :
     /\ Cardinality(page) = Limit(asked) \/ (page = older /\ Cardinality(page) <= Limit(asked))
     /\ \A m \in page, n \in older \ page : stamp[m] <= stamp[n]}

(* ORDER BY created_at DESC LIMIT: the pages it may return.                *)
Pages(messages, stamp, before, asked) ==
  LET older == Older(messages, stamp, before) IN
  {page \in SUBSET older :
     /\ Cardinality(page) = Limit(asked) \/ (page = older /\ Cardinality(page) <= Limit(asked))
     /\ \A m \in page, n \in older \ page : stamp[m] >= stamp[n]}

(* The cursor a reader takes from a page: created_at of its first message, *)
(* as the page is returned in ascending order.                             *)
Cursor(page, stamp) == CHOOSE t \in {stamp[m] : m \in page} : \A m \in page : t <= stamp[m]

(* What a reader may have seen who asks for the messages before b, when    *)
(* read tells it of every earlier cursor.  An empty page is the last.      *)
Continued(read, messages, stamp, b, asked) ==
  UNION {IF page = {} THEN {{}}
         ELSE {page \cup rest : rest \in read[Cursor(page, stamp)]} :
         page \in Pages(messages, stamp, b, asked)}

(* What it may have seen when, from before on, no page is left.            *)
Readings(messages, stamp, before, asked) ==
  LET read[b \in 0..before] == Continued(read, messages, stamp, b, asked) IN read[before]

(* A table of n messages, read page by page to the end with any limit: all *)
(* that is missed is stamped like something that was shown.                *)
PagesComplete(n) ==
  \A stamp \in [1..n -> Times] : \A asked \in -1..(MaxLimit + 1) :
    \A reading \in Readings(1..n, stamp, 1 + Max(Times), asked) :
      \A m \in (1..n) \ reading : \E k \in reading : stamp[m] = stamp[k]

CompleteSizes == {n \in 0..MaxRows : PagesComplete(n)}
=============================================================================
