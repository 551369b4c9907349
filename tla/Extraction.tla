----------------------------- MODULE Extraction -----------------------------
(***************************************************************************)
(* The Go worker reading one business day from Pancake                     *)
(* (internal/extract/runner.go): conversations are listed a page at a time *)
(* after the last one seen, and the messages of each are read from the     *)
(* newest to the oldest, a page at a time, by a running count.  Customers  *)
(* and staff keep writing while it reads, so the pages shift under it.     *)
(*                                                                         *)
(* Pancake itself is outside the repository: it is modelled as the worker  *)
(* uses it, a list of conversations in a fixed order and, for each, a list *)
(* of messages with the newest at its head.                                *)
(***************************************************************************)
EXTENDS ThreadDay

CONSTANTS Threads,        \* 1..n: the conversations of the page, as listed
          ListSize,       \* conversations of a page of the list
          PageSize,       \* messages of a page of a conversation
          Arriving,       \* the kinds of message that may still arrive
          MaxArrivals,    \* bound: messages that arrive while the worker reads
          Caps            \* the caps an operator may set: [threads, pages], 0 for none

ASSUME ExtractionConstants ==
  /\ Threads \subseteq Nat \ {0} /\ IsFiniteSet(Threads)
  /\ {ListSize, PageSize} \subseteq Nat \ {0}
  /\ MaxArrivals \in Nat /\ Arriving \subseteq Kinds
  /\ Caps \subseteq [threads : Nat, pages : Nat]

VARIABLES now,       \* the clock, in ticks of UTC
          source,    \* thread -> its conversation at Pancake
          arrivals,  \* messages that arrived since the start
          job,       \* the child run: its window, caps and stage
          scan       \* where the worker is and what it has gathered

extractionVars == <<now, source, arrivals, job, scan>>

InWindow(m, window) == window.start <= m.at /\ m.at < window.end
MessagesIn(messages, window) == {m \in Range(messages) : InWindow(m, window)}
Ids(messages) == {m.id : m \in messages}

NewScan == [batch |-> <<>>, last |-> 0, short |-> FALSE, threads |-> 0,
            count |-> 0, pages |-> 0,
            found |-> [t \in Threads |-> {}],
            due |-> [t \in Threads |-> {}],      \* history: in the window at the first page
            whole |-> {}]                        \* history: threads read to their end

LimitReached(limit, current) == limit > 0 /\ current >= limit

(* The page of at most size elements that starts after a count of them.    *)
PageOf(seq, count, size) == SubSeq(seq, count + 1, Min({count + size, Len(seq)}))

(* The next page of the list, after the last conversation seen.            *)
ConversationsAfter(last) ==
  PageOf(InOrder({t \in Threads : t > last}, LAMBDA a, b : a < b), 0, ListSize)

(* A page of a conversation that starts where the running count stands.    *)
MessagesFrom(thread, count) ==
  PageOf(source[thread].messages, count, PageSize)

(* The worker checks its manifest: the window is not empty and stays       *)
(* inside the day it is labelled with.                                     *)
Validated(day, window) ==
  /\ window.start < window.end
  /\ DayStart(day) <= window.start /\ window.end <= DayStart(day + 1)

(* The request for a token and the tags comes first; any error of Pancake  *)
(* ends the run.                                                           *)
OpenPage ==
  /\ job.stage = "queued"
  /\ job' = [job EXCEPT !.stage = IF Validated(job.day, job.window) THEN "listing" ELSE "failed"]
  /\ scan' = NewScan
  /\ UNCHANGED <<now, source, arrivals>>

PancakeFails ==
  /\ job.stage \in {"queued", "listing", "paging"}
  /\ job' = [job EXCEPT !.stage = "failed"]
  /\ UNCHANGED <<now, source, arrivals, scan>>

ListConversations ==
  /\ job.stage = "listing"
  /\ LET batch == ConversationsAfter(scan.last)
         stop == LimitReached(job.caps.threads, scan.threads) \/ batch = <<>>
     IN /\ job' = [job EXCEPT !.stage = IF stop THEN "extracted" ELSE "paging"]
        /\ scan' = IF stop THEN scan
                   ELSE [scan EXCEPT !.batch = batch, !.short = Len(batch) < ListSize,
                                     !.threads = @ + 1]
  /\ UNCHANGED <<now, source, arrivals>>

HasOutside(page, window) == \E i \in DOMAIN page : ~InWindow(page[i], window)  \* mutant: a newer message stops it too

(* The window does not reach below a message that is older than its start. *)
StopPaging(page, window) == \E i \in DOMAIN page : page[i].at < window.start

(* Where the worker goes when it is done with the conversation at hand.    *)
StageAfterThread ==
  IF Len(scan.batch) > 1
  THEN IF LimitReached(job.caps.threads, scan.threads) THEN "extracted" ELSE "paging"
  ELSE IF scan.short THEN "extracted" ELSE "listing"

(* One page of messages: keep those in the window and go on until a short  *)
(* page, a message older than the window or the cap on pages.              *)
FetchMessages ==
  /\ job.stage = "paging"
  /\ LET thread == Head(scan.batch)
         page == MessagesFrom(thread, scan.count)
         ended == Len(page) < PageSize \/ StopPaging(page, job.window)
         capped == LimitReached(job.caps.pages, scan.pages + 1)
         due == IF scan.pages > 0 THEN scan.due[thread]
                ELSE Ids(MessagesIn(source[thread].messages, job.window))
         read == [scan EXCEPT !.found[thread] = @ \cup MessagesIn(page, job.window),
                              !.due[thread] = due]
     IN IF ended \/ capped
        THEN /\ scan' = [read EXCEPT !.batch = Tail(@), !.last = thread,
                                     !.count = 0, !.pages = 0,
                                     !.threads = IF Len(scan.batch) > 1
                                                    /\ StageAfterThread = "paging"
                                                 THEN @ + 1 ELSE @,
                                     !.whole = IF ended THEN @ \cup {thread} ELSE @]
             /\ job' = [job EXCEPT !.stage = StageAfterThread]
        ELSE /\ scan' = [read EXCEPT !.count = @ + Len(page), !.pages = @ + 1]
             /\ UNCHANGED job
  /\ UNCHANGED <<now, source, arrivals>>

Extract == OpenPage \/ PancakeFails \/ ListConversations \/ FetchMessages

(* Somebody writes: the message becomes the head of its conversation.      *)
NewMessage(thread, kind) ==
  [id |-> 100 + arrivals, at |-> now, kind |-> kind]

Arrive(thread, kind) ==
  /\ job.stage \in {"listing", "paging"}
  /\ arrivals < MaxArrivals
  /\ arrivals' = arrivals + 1
  /\ source' = [source EXCEPT ![thread].messages = <<NewMessage(thread, kind)>> \o @]
  /\ UNCHANGED <<now, job, scan>>
=============================================================================
