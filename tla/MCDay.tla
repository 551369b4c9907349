-------------------------------- MODULE MCDay --------------------------------
(***************************************************************************)
(* Day on a small instance: business days of four ticks whose midnight is  *)
(* one tick ahead of UTC, so that day 2 is the ticks 7 to 10.  The run is  *)
(* asked for at tick 10; one tick later it is day 3.                       *)
(***************************************************************************)
EXTENDS Day, TLC

(* Kinds of message.                                                       *)
Kind(from, staff, auto, card, buttons, text) ==
  [from |-> from, staff |-> staff, auto |-> auto, card |-> card,
   buttons |-> buttons, text |-> text]
Ask == Kind("customer", NoStaff, FALSE, FALSE, {}, "ask")
Again == Kind("customer", NoStaff, FALSE, FALSE, {}, "again")
Press == Kind("customer", NoStaff, FALSE, FALSE, {}, "button")
Menu == Kind("page", NoStaff, TRUE, TRUE, {"button"}, Blank)
Notice == Kind("page", NoStaff, FALSE, FALSE, {}, Blank)
AnnSays == Kind("page", 1, FALSE, FALSE, {}, "answer")
BobBooks == Kind("page", 2, FALSE, FALSE, {}, "appointment")
Stranger == Kind("nobody", NoStaff, FALSE, FALSE, {}, "ask")

MCSays == [ask |-> {"consultation"}, again |-> {"revisit", "medium"}, button |-> {},
           answer |-> {"follow_up"}, appointment |-> {"appointment_booked", "appointment_booking"}]
MCArriving == {Ask, AnnSays}

(* Conversations, their messages given from the oldest to the newest.      *)
Conversation(kinds, times, firstSeen, tags, tagHistory) ==
  [messages |-> Reverse([i \in 1..Len(times) |->
                           [id |-> i, at |-> times[i], kind |-> kinds[i]]]),
   firstSeen |-> firstSeen, tags |-> tags, tagHistory |-> tagHistory]

RevisitTag == [id |-> 1, text |-> "t1"]
NeedTag == [id |-> 2, text |-> "t2"]
OldTag == [id |-> 3, text |-> "t3"]

Today == <<7, 8, 9, 9>>
Across == <<4, 6, 8, 9>>
Busy == {Conversation(<<Menu, Press, Ask, AnnSays>>, Today, 7, {}, {}),
         Conversation(<<Ask, Again, BobBooks, AnnSays>>, Today, 8, {RevisitTag}, {NeedTag}),
         Conversation(<<AnnSays, Ask, BobBooks, Ask>>, Across, 4, {NeedTag}, {OldTag}),
         Conversation(<<Ask, Menu, Press, AnnSays>>, Across, 6, {OldTag}, {}),
         Conversation(<<Menu, Press, Notice, Stranger>>, Today, 3, {}, {RevisitTag})}
Quiet == {Conversation(<<Ask>>, <<1>>, 1, {}, {}),
          Conversation(<<Ask, Again>>, <<5, 8>>, 5, {NeedTag}, {})}

(* Configurations of the ETL.                                              *)
Entry(tag, text, role, code) == [tag |-> tag, text |-> text, role |-> role, code |-> code]
Rule(role, code, types, texts) ==
  [role |-> role, code |-> code, types |-> types, texts |-> texts]
Explained == [mapping |-> <<Entry(1, Blank, "journey", "revisit"),
                            Entry(0, "t2", "need", "consultation"),
                            Entry(3, Blank, "outcome", "booked")>>,
              rules |-> <<Rule("journey", "revisit", {"text"}, {"button"}),
                          Rule("need", "revisit", {}, {"button"})>>]
Noisy == [mapping |-> <<Entry(2, Blank, "need", Blank), Entry(0, "t3", "noise", Blank)>>,
          rules |-> <<Rule("need", "consultation", {}, {"button", "ask"})>>]

(* Answers of a model.                                                     *)
Answer(need, journey, outcome, risk, staff, cost) ==
  [status |-> "succeeded", need |-> need, journey |-> journey, outcome |-> outcome,
   risk |-> risk, staff |-> staff, cost |-> cost]
MCProviderAnswers ==
  {Answer("consultation", "tai_kham", "booked", "cao",
          <<[staff |-> 1, quality |-> "tot"], [staff |-> 3, quality |-> "strong"],
            [staff |-> 1, quality |-> "adequate"]>>, 5),
   Answer("revisit", "revisit", "follow_up", "low", <<>>, 1),
   Answer(Blank, "elsewhere", "not_closed", "low", <<>>, 1),
   NoAnswer}

(* Earlier runs of the page.                                               *)
Fact(run, day, first) ==
  [run |-> run, day |-> day, thread |-> 1, isNew |-> FALSE, revisit |-> "not_revisit",
   need |-> "consultation", outcome |-> "unknown", risk |-> "low", messages |-> 2,
   first |-> first, average |-> first, cost |-> 0]
StaffFact(run, day) ==
  [run |-> run, day |-> day, thread |-> 1, staff |-> 1, need |-> "consultation",
   risk |-> "low", quality |-> "adequate", messages |-> 1, first |-> 2, cost |-> 0]
EarlierWith(channel) ==
  [board |-> {[day |-> 1, channel |-> "official", run |-> 901],
              [day |-> 2, channel |-> channel, run |-> 902]},
   mart |-> {Fact(901, 1, 2), Fact(902, 2, NoTime)},
   staffMart |-> {StaffFact(901, 1)}]

World(first, second, etl, mode, caps, channel) ==
  [source |-> <<first, second>>, etl |-> etl, mode |-> mode, caps |-> caps,
   earlier |-> EarlierWith(channel)]
NoCaps == [threads |-> 0, pages |-> 0]
MCCaps == {NoCaps, [threads |-> 1, pages |-> 1]}

MCWorlds ==
  {World(first, second, etl, "deterministic_dev", NoCaps, "provisional") :
     first \in Busy, second \in Quiet, etl \in {Explained, Noisy}}
  \cup {World(first, second, Noisy, "live", caps, channel) :
          first \in Busy, second \in Quiet, caps \in MCCaps, channel \in {"provisional", "official"}}

MCRequests == {[day |-> 1], [start |-> 5, end |-> 10], [start |-> 7, end |-> 11]}

MCAsk(kind, from, to, snapshot, staff, inbox) ==
  [kind |-> kind, from |-> from, to |-> to, snapshot |-> snapshot, staff |-> staff,
   inbox |-> inbox]
MCAsks == {MCAsk("overview", 2, 2, "provisional", NoStaff, "all"),
           MCAsk("overview", 1, 2, "official", NoStaff, "all"),
           MCAsk("overview", 2, 2, "provisional", 1, "old"),
           MCAsk("exploration", 1, 1, "provisional", NoStaff, "new"),
           MCAsk("staff", 1, 2, "provisional", NoStaff, "all"),
           MCAsk("export", 1, 2, "official", NoStaff, "all")}
=============================================================================
