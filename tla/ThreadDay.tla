------------------------------ MODULE ThreadDay ------------------------------
(***************************************************************************)
(* What the Go worker makes of one conversation on one business day: who   *)
(* wrote each message, where the automatic opening ends and the human      *)
(* conversation starts, the signals read from tags and opening rules, the  *)
(* response times and the staff counters (internal/transform/build.go).    *)
(*                                                                         *)
(* A source message is [id, at, kind].  Its kind is what the code tells    *)
(* apart: from ("customer", "page" or "nobody"), staff (the admin's name,  *)
(* a number in the order of names, or NoStaff), auto (sent by an app, a    *)
(* flow or the AI), card (a template attachment), buttons (the titles on   *)
(* it) and text (after redaction, or Blank).                               *)
(***************************************************************************)
EXTENDS Planner, FiniteSets, SequencesExt

CONSTANTS Blank,    \* an empty text, code or signal
          NoStaff,  \* a message without an admin's name
          NoTime    \* a metric that does not apply (null)

ASSUME ThreadDayConstants == NoStaff \notin Int /\ NoTime \notin Int

Kinds == [from : {"customer", "page", "nobody"}, staff : Nat \cup {NoStaff},
          auto : BOOLEAN, card : BOOLEAN, buttons : SUBSET STRING, text : STRING \cup {Blank}]
Messages == [id : Nat, at : Nat, kind : Kinds]
Tags == [id : Nat, text : STRING]
Conversations == [messages : Seq(Messages), firstSeen : Nat,
                  tags : SUBSET Tags, tagHistory : SUBSET Tags]
Entries == [tag : Nat, text : STRING \cup {Blank}, role : STRING, code : STRING \cup {Blank}]
Rules == [role : STRING, code : STRING, types : SUBSET STRING, texts : SUBSET STRING]
Policies == [mapping : Seq(Entries), rules : Seq(Rules)]

HumanRoles == {"customer", "staff_via_pancake"}

SenderRole(kind) ==
  CASE kind.from = "nobody" -> "unknown_page_actor"
    [] kind.from = "customer" -> "customer"
    [] kind.from = "page" /\ kind.auto -> "third_party_bot"
    [] kind.from = "page" /\ ~kind.auto /\ kind.staff # NoStaff -> "staff_via_pancake"
    [] kind.from = "page" /\ ~kind.auto /\ kind.staff = NoStaff ->
         IF kind.text = Blank /\ ~kind.card THEN "page_system_auto_message"
         ELSE "unknown_page_actor"

MessageType(kind) == CASE kind.card -> "template"
                       [] ~kind.card /\ kind.text = Blank -> "unsupported"
                       [] ~kind.card /\ kind.text # Blank -> "text"

Older(m, n) == m.at < n.at \/ (m.at = n.at /\ m.id < n.id)

(* A set as a sequence: each element after those that come before it.      *)
InOrder(S, Before(_, _)) ==
  [i \in 1 .. Cardinality(S) |-> CHOOSE x \in S : Cardinality({y \in S : Before(y, x)}) = i - 1]

(* Each id once, oldest first, ties by id.                                 *)
SortMessages(found) == InOrder(found, Older)

ButtonTitles(messages) == UNION {messages[i].kind.buttons : i \in DOMAIN messages}

(* A human message that is no press of a button of the day's cards.        *)
IsMeaningful(messages, i) ==
  /\ SenderRole(messages[i].kind) \in HumanRoles
  /\ messages[i].kind.text # Blank
  /\ messages[i].kind.text \notin ButtonTitles(messages)

(* How many messages, from the first, form the opening block.              *)
OpeningEnd(messages) ==
  LET human == {i \in DOMAIN messages : IsMeaningful(messages, i)}
  IN IF human = {} THEN Len(messages)
     ELSE (CHOOSE i \in human : \A j \in human : i <= j) - 1

Transformed(messages) ==
  [i \in DOMAIN messages |->
     [id |-> messages[i].id, at |-> messages[i].at, kind |-> messages[i].kind,
      role |-> SenderRole(messages[i].kind), opening |-> i <= OpeningEnd(messages)]]

(***************************************************************************)
(* Signals.  A tag is [id, text], its id 0 when only the text is known; a  *)
(* mapping entry is [tag, text, role, code], its tag 0 when it speaks of a *)
(* text; an opening rule is [role, code, types, texts].                    *)
(***************************************************************************)
OrElse(code, other) == IF code # Blank THEN code ELSE other

FirstWhere(seq, Test(_)) ==
  LET hits == {i \in DOMAIN seq : Test(seq[i])}
  IN IF hits = {} THEN <<>> ELSE <<seq[CHOOSE i \in hits : \A j \in hits : i <= j]>>

LastWhere(seq, Test(_)) ==
  LET hits == {i \in DOMAIN seq : Test(seq[i])}
  IN IF hits = {} THEN <<>> ELSE <<seq[CHOOSE i \in hits : \A j \in hits : j <= i]>>

TagBefore(a, b) == a.id < b.id

FirstTag(tags) == CHOOSE t \in tags : \A o \in tags : ~TagBefore(o, t)

(* The tags a conversation carries and those its history mentions.  The    *)
(* day of a history entry is not looked at.                                *)
ObservedTags(conversation) == conversation.tags \cup conversation.tagHistory

(* The entry that speaks for a tag: by id, else by text; a later entry     *)
(* replaces an earlier one.                                                *)
EntryOf(tag, mapping) ==
  LET byId == LastWhere(mapping, LAMBDA e : e.tag # 0 /\ e.tag = tag.id)
      byText == LastWhere(mapping, LAMBDA e : e.text # Blank /\ e.text = tag.text)
  IN IF byId # <<>> THEN byId ELSE byText

RoleOf(tag, mapping) ==
  LET entry == EntryOf(tag, mapping)
  IN IF entry = <<>> THEN "noise" ELSE entry[1].role

(* The tags that the mapping puts in a role, other than noise.             *)
Bucket(role, tags, mapping) == {t \in tags : RoleOf(t, mapping) = role}

(* The code of the first of them, in the order of the tags' keys.          *)
FirstCode(bucket, mapping) ==
  IF bucket = {} THEN Blank ELSE EntryOf(FirstTag(bucket), mapping)[1].code

(* As a signal of the journey only "revisit" counts.                       *)
TagSignal(role, tags, mapping) ==
  LET counts(code) == code # Blank /\ (role = "journey" => code = "revisit")
  IN FirstCode({t \in Bucket(role, tags, mapping) : counts(EntryOf(t, mapping)[1].code)}, mapping)

RuleMatches(rule, kind) ==
  /\ rule.types = {} \/ MessageType(kind) \in rule.types
  /\ rule.texts \cap (({kind.text} \ {Blank}) \cup kind.buttons) # {}

RuleOf(role, kind, rules) ==
  FirstWhere(rules, LAMBDA r : r.role = role /\ RuleMatches(r, kind))

WholeDay(messages) == messages   \* mutant: rules read the whole day

OpeningBlock(messages) == SubSeq(messages, 1, OpeningEnd(messages))

(* What the opening block says of a role: the first rule that matches,     *)
(* message by message.                                                     *)
OpeningCode(role, opening, rules) ==
  LET chosen == FirstWhere(opening, LAMBDA m : RuleOf(role, m.kind, rules) # <<>>)
  IN IF chosen = <<>> THEN Blank ELSE RuleOf(role, chosen[1].kind, rules)[1].code

Explicit(role, tags, opening, etl) ==
  OrElse(TagSignal(role, tags, etl.mapping), OpeningCode(role, opening, etl.rules))

(***************************************************************************)
(* Response times and staff counters.                                      *)
(***************************************************************************)
AfterMessageRestarted(acc, m) ==      \* mutant: every customer message restarts the wait
  CASE m.role = "customer" -> [acc EXCEPT !.pending = m.at]
    [] m.role = "staff_via_pancake" /\ acc.pending # NoTime ->
         [pending |-> NoTime, waits |-> Append(acc.waits, m.at - acc.pending)]
    [] OTHER -> acc

(* One pass over the day: the first customer message not yet answered      *)
(* starts a wait, the next staff message ends it.                          *)
AfterMessage(acc, m) ==
  CASE m.role = "customer" /\ acc.pending = NoTime -> [acc EXCEPT !.pending = m.at]
    [] m.role = "staff_via_pancake" /\ acc.pending # NoTime ->
         [pending |-> NoTime, waits |-> Append(acc.waits, m.at - acc.pending)]
    [] OTHER -> acc

Waits(messages) ==
  LET after[n \in 0 .. Len(messages)] ==
        IF n = 0 THEN [pending |-> NoTime, waits |-> <<>>]
        ELSE AfterMessage(after[n - 1], messages[n])
  IN after[Len(messages)].waits

FirstResponse(waits) == IF waits = <<>> THEN NoTime ELSE waits[1]
AverageResponse(waits) ==
  IF waits = <<>> THEN NoTime ELSE SumFunction(waits) \div Len(waits)

StaffMessages(messages) == {i \in DOMAIN messages : messages[i].role = "staff_via_pancake"}

(* Who wrote, how often, and when first.                                   *)
StaffStats(messages) ==
  LET wrote == StaffMessages(messages)
  IN [name \in {messages[i].kind.staff : i \in wrote} |->
        LET own == {i \in wrote : messages[i].kind.staff = name}
        IN [messages |-> Cardinality(own), firstAt |-> messages[Min(own)].at]]

(* The dates are compared in the zone of the window's start, which is UTC  *)
(* because the planner writes it that way.                                 *)
IsNewInbox(firstSeen, window) == UtcDay(firstSeen) = UtcDay(window.start)

BuildConversationDay(conversation, found, window, etl) ==
  LET sorted == SortMessages(found)
      messages == Transformed(sorted)
      tags == ObservedTags(conversation)
      opening == OpeningBlock(sorted)
      waits == Waits(messages)
  IN [messages |-> messages,
      revisit |-> Explicit("journey", tags, opening, etl),
      need |-> Explicit("need", tags, opening, etl),
      outcome |-> Explicit("outcome", tags, opening, etl),
      journey |-> OrElse(OpeningCode("journey", opening, etl.rules),
                         FirstCode(Bucket("journey", tags, etl.mapping), etl.mapping)),
      first |-> FirstResponse(waits),
      average |-> AverageResponse(waits),
      staff |-> StaffStats(messages),
      isNew |-> IsNewInbox(conversation.firstSeen, window)]
=============================================================================
