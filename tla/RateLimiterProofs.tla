------------------------- MODULE RateLimiterProofs -------------------------
(***************************************************************************)
(* Machine-checked proofs about the rate limiters of a flow, for any set   *)
(* of servers and requests and any number of starts and failures.          *)
(***************************************************************************)
EXTENDS RateLimiterProperties, TLAPS, SequenceTheorems, FiniteSetTheorems

Setting == Limit \cup {NoLimit}
Server0 == [pc : {"down", "starting", "loading", "ready"}, read : RateLimit]
Save0 == [pc : {"idle", "read", "update", "done"}, by : SUBSET Server, sent : BOOLEAN,
          body : RateLimit]

(* A server that is down has nothing in memory and misses events; in main  *)
(* mode there are no events and at most one server.                        *)
TypeInv ==
  /\ mode \in {"main", "queue"}
  /\ apiConfig \in RateLimit
  /\ limiter \in [Server -> Limit \cup {NoLimit, NoLimiter}]
  /\ server \in [Server -> Server0]
  /\ events \in [Server -> Seq(Setting)]
  /\ save \in [Request -> Save0]
  /\ heard \subseteq Server
  /\ \A s \in Server : ~Up(s) => limiter[s] = NoLimiter /\ s \notin heard
  /\ \A s \in Server : server[s].pc = "down" => events[s] = <<>>
  /\ mode = "main" =>
       /\ heard = {}
       /\ \A s \in Server : events[s] = <<>>
       /\ \A s, t \in Server : server[s].pc # "down" /\ server[t].pc # "down" => s = t

(* A save ends with its server.                                            *)
SaverUp == \A r \in Saving, s \in Server : save[r].by = {s} => Up(s)

(* What a server enforces once it has handled its events, which a server   *)
(* that has heard of a change, or is about to, shares with the others.     *)
Final(s) == IF events[s] = <<>> THEN limiter[s] ELSE events[s][Len(events[s])]
Informed(s) == s \in heard \/ events[s] # <<>>
AgreeInv == \A s, t \in Server : Informed(s) /\ Informed(t) => Final(s) = Final(t)

(* The setting that a stored rateLimit stands for, and the one that all    *)
(* servers are about to enforce: that of the save under way, if any.       *)
Meant(body) ==
  IF body # NoRateLimit /\ body.status /\ body.limit # NoLimit THEN body.limit ELSE NoLimiter
Enforced(r) == Meant(IF save[r].pc = "read" THEN apiConfig ELSE save[r].body)

(* A setting that servers can follow.                                      *)
Plain(body) ==
  /\ body # NoRateLimit
  /\ mode = "queue" => body.status /\ body.limit # NoLimit
  /\ mode # "queue" => ~(body.status /\ body.limit = NoLimit)
DriftInv ==
  drift = {} =>
    /\ \A q, r \in Saving : q = r
    /\ Starting # {} => Saving = {}
    /\ \A s \in Starting : events[s] = <<>>
    /\ \A s \in Starting : server[s].pc = "loading" => server[s].read = apiConfig
    /\ \A s \in Server : Up(s) =>
         /\ Saving = {} => Final(s) = Meant(apiConfig)
         /\ \A r \in Saving : Final(s) = Enforced(r)
    /\ \A r \in Saving : ~save[r].sent => save[r].body = apiConfig
    /\ \A r \in Saving : save[r].pc = "read" /\ save[r].sent => Plain(save[r].body)

-----------------------------------------------------------------------------
(* Sequences of events.                                                    *)

(* An event joins the end of a sequence.                                   *)
LEMMA AppendLast ==
  ASSUME NEW q \in Seq(Setting), NEW e \in Setting
  PROVE  /\ Append(q, e) \in Seq(Setting)
         /\ Append(q, e) # <<>>
         /\ Append(q, e)[Len(Append(q, e))] = e
BY AppendProperties

(* Without its first event a sequence keeps its last one, or is empty.     *)
LEMMA TailLast ==
  ASSUME NEW q \in Seq(Setting), q # <<>>
  PROVE  /\ Head(q) \in Setting
         /\ Tail(q) \in Seq(Setting)
         /\ Tail(q) # <<>> => Tail(q)[Len(Tail(q))] = q[Len(q)]
         /\ Tail(q) = <<>> => Head(q) = q[Len(q)]
<1>1. /\ Head(q) \in Setting /\ Tail(q) \in Seq(Setting)
      /\ Len(Tail(q)) = Len(q) - 1
      /\ \A i \in 1 .. Len(Tail(q)) : Tail(q)[i] = q[i + 1]
  BY HeadTailProperties
<1>2. Len(q) \in Nat \ {0}
  BY EmptySeq
<1>3. ASSUME Tail(q) # <<>> PROVE Tail(q)[Len(Tail(q))] = q[Len(q)]
  <2>1. Len(Tail(q)) \in Nat \ {0}
    BY <1>1, <1>3, EmptySeq
  <2> QED
    BY <1>1, <1>2, <2>1
<1>4. ASSUME Tail(q) = <<>> PROVE Head(q) = q[Len(q)]
  <2>1. Len(q) = 1
    BY <1>1, <1>2, <1>4, EmptySeq
  <2> QED
    BY <2>1
<1> QED
  BY <1>1, <1>3, <1>4

(* What a server does with a setting of its own flow.                      *)
LEMMA UpdatedValues ==
  ASSUME NEW old \in Setting \cup {NoLimiter}, NEW body \in RateLimit
  PROVE  /\ Updated(old, body) \in Setting \cup {NoLimiter}
         /\ Updated(NoLimiter, body) = Meant(body)
BY LimiterValues DEF Updated, Meant, RateLimit, Setting

-----------------------------------------------------------------------------
(* Types.                                                                  *)

LEMMA TypeInit == Init => TypeInv
BY EmptySeq DEF Init, TypeInv, RateLimit, Setting, Server0, Save0, Up

(* A server that comes up changes its own state only.                      *)
LEMMA TypeStarts ==
  ASSUME TypeInv, NEW s \in Server, Start(s) \/ ReadFlows(s) \/ InitializeRateLimiters(s)
  PROVE  TypeInv'
<1>1. CASE Start(s)
  <2>1. server' \in [Server -> Server0]
    <3>1. [server[s] EXCEPT !.pc = "starting"] \in Server0
      BY DEF TypeInv, Server0
    <3>2. server' = [server EXCEPT ![s] = [server[s] EXCEPT !.pc = "starting"]]
      BY <1>1 DEF Start
    <3> QED
      BY <3>1, <3>2 DEF TypeInv
  <2>2. \A t \in Server : Up(t)' <=> Up(t)
    BY <1>1 DEF TypeInv, Start, Up, Server0
  <2>3. mode = "main" => \A t, u \in Server : server'[t].pc # "down" /\ server'[u].pc # "down" => t = u
    BY <1>1 DEF TypeInv, Start, Server0
  <2>4. \A t \in Server : server'[t].pc = "down" => server[t].pc = "down"
    BY <1>1 DEF TypeInv, Start, Server0
  <2> QED
    BY <1>1, <2>1, <2>2, <2>3, <2>4 DEF TypeInv, Start
<1>2. CASE ReadFlows(s)
  BY <1>2 DEF TypeInv, ReadFlows, Server0, Up
<1>3. CASE InitializeRateLimiters(s)
  <2>1. Updated(NoLimiter, server[s].read) \in Setting \cup {NoLimiter}
    BY UpdatedValues DEF TypeInv, Server0
  <2> QED
    BY <1>3, <2>1 DEF TypeInv, InitializeRateLimiters, Server0, Setting, Up, RateLimit
<1> QED
  BY <1>1, <1>2, <1>3

LEMMA TypeStop ==
  ASSUME TypeInv, NEW s \in Server, Stop(s)
  PROVE  TypeInv'
<1>1. server' \in [Server -> Server0] /\ save' \in [Request -> Save0]
  <2>1. server' \in [Server -> Server0]
    BY DEF TypeInv, Stop, Server0, RateLimit
  <2>2. \A r \in Request : save[r] \in Save0 /\ [save[r] EXCEPT !.pc = "done"] \in Save0
    BY DEF TypeInv, Save0
  <2> QED
    BY <2>1, <2>2 DEF Stop
<1>2. limiter' \in [Server -> Limit \cup {NoLimit, NoLimiter}] /\ events' \in [Server -> Seq(Setting)]
  BY EmptySeq DEF TypeInv, Stop
<1> QED
  BY <1>1, <1>2 DEF TypeInv, Stop, Up

LEMMA TypeReceive ==
  ASSUME TypeInv, NEW s \in Server, Receive(s)
  PROVE  TypeInv'
<1>1. events[s] \in Seq(Setting) /\ events[s] # <<>>
  BY DEF TypeInv, Receive
<1>2. Head(events[s]) \in Setting /\ Tail(events[s]) \in Seq(Setting)
  BY <1>1, TailLast
<1>3. /\ events' \in [Server -> Seq(Setting)]
      /\ \A t \in Server : events[t] = <<>> => events'[t] = <<>>
  BY <1>1, <1>2 DEF TypeInv, Receive
<1>4. CASE Up(s)
  <2>1. /\ limiter' = [limiter EXCEPT ![s] = Head(events[s])]
        /\ heard' = heard \cup {s}
    BY <1>4 DEF Receive, Handles
  <2>2. mode = "queue"
    BY <1>1 DEF TypeInv
  <2> QED
    BY <1>2, <1>3, <1>4, <2>1, <2>2 DEF TypeInv, Receive, Up, Setting
<1>5. CASE ~Up(s)
  BY <1>3, <1>5 DEF TypeInv, Receive, Handles, Up
<1> QED
  BY <1>4, <1>5

LEMMA SentRateLimit ==
  ASSUME TypeInv, NEW r \in Request
  PROVE  Sent(r) \in RateLimit
BY DEF TypeInv, Save0, Sent, RateLimit

LEMMA TypeReadChatflow ==
  ASSUME TypeInv, NEW r \in Request, NEW s \in Server, NEW sent \in BOOLEAN,
         NEW body \in RateLimit, ReadChatflow(r, s, sent, body)
  PROVE  TypeInv'
<1>1. save' \in [Request -> Save0]
  BY DEF TypeInv, ReadChatflow, Save0
<1> QED
  BY <1>1 DEF TypeInv, ReadChatflow, Up

LEMMA TypeUpdateRateLimiter ==
  ASSUME TypeInv, SaverUp, NEW r \in Request, NEW s \in Server, NEW body, body = Sent(r),
         UpdateRateLimiter(r, s)
  PROVE  TypeInv'
<1>0. body \in RateLimit
  BY SentRateLimit
<1>1. save' \in [Request -> Save0]
  BY DEF TypeInv, UpdateRateLimiter, Save0
<1>2. CASE mode = "queue" /\ body = NoRateLimit
  BY <1>1, <1>2 DEF TypeInv, UpdateRateLimiter, Up
<1>3. CASE mode = "queue" /\ body # NoRateLimit
  <2>1. body.limit \in Setting
    BY <1>0, <1>3 DEF RateLimit, Setting
  <2>2. events' \in [Server -> Seq(Setting)]
    <3>1. \A t \in Server : events[t] \in Seq(Setting) /\ Append(events[t], body.limit) \in Seq(Setting)
      BY <2>1, AppendLast DEF TypeInv
    <3>2. events' = EventsAfter(s, body.limit)
      BY <1>3 DEF UpdateRateLimiter
    <3> QED
      BY <3>1, <3>2 DEF EventsAfter
  <2>3. \A t \in Server : server'[t].pc = "down" => events'[t] = <<>>
    BY <1>3 DEF TypeInv, UpdateRateLimiter, EventsAfter
  <2>4. UNCHANGED <<mode, apiConfig, limiter, server, heard>>
    BY <1>3 DEF UpdateRateLimiter
  <2> QED
    BY <1>1, <1>3, <2>2, <2>3, <2>4 DEF TypeInv, Up
<1>4. CASE mode = "main"
  <2>1. Updated(limiter[s], body) \in Setting \cup {NoLimiter}
    BY <1>0, UpdatedValues DEF TypeInv, Setting
  <2>2. Up(s)
    BY DEF UpdateRateLimiter, SaverUp, Saving
  <2> QED
    BY <1>1, <1>4, <2>1, <2>2 DEF TypeInv, UpdateRateLimiter, Up, Setting
<1> QED
  BY <1>2, <1>3, <1>4 DEF TypeInv

LEMMA TypeUpdateChatflow ==
  ASSUME TypeInv, NEW r \in Request, UpdateChatflow(r)
  PROVE  TypeInv'
<1>1. save' \in [Request -> Save0] /\ save[r].body \in RateLimit
  BY DEF TypeInv, UpdateChatflow, Save0
<1> QED
  BY <1>1 DEF TypeInv, UpdateChatflow, Up

LEMMA SaverStays ==
  ASSUME TypeInv, SaverUp, Next
  PROVE  SaverUp'
<1>1. ASSUME NEW s \in Server, Start(s) \/ ReadFlows(s) \/ InitializeRateLimiters(s) \/ Receive(s)
      PROVE  SaverUp'
  <2>1. save' = save /\ \A t \in Server : Up(t) => Up(t)'
    BY <1>1 DEF Start, ReadFlows, InitializeRateLimiters, Receive, Up, TypeInv, Server0
  <2> QED
    BY <2>1 DEF SaverUp, Saving
<1>2. ASSUME NEW s \in Server, Stop(s) PROVE SaverUp'
  <2>1. \A t \in Server : t # s /\ Up(t) => Up(t)'
    BY <1>2 DEF Stop, Up, TypeInv
  <2>2. \A r \in Saving' : r \in Saving /\ save'[r] = save[r] /\ save[r].by # {s}
    BY <1>2 DEF Stop, Saving, TypeInv, Save0
  <2> QED
    BY <2>1, <2>2 DEF SaverUp
<1>3. ASSUME NEW s \in Server, NEW r \in Request, NEW sent, NEW body, ReadChatflow(r, s, sent, body)
      PROVE  SaverUp'
  <2>1. /\ server' = server /\ Up(s) /\ save'[r].by = {s}
        /\ \A q \in Request : q # r => save'[q] = save[q]
    BY <1>3 DEF ReadChatflow, TypeInv
  <2> QED
    BY <2>1 DEF SaverUp, Saving, Up
<1>4. ASSUME NEW r \in Request, UpdateChatflow(r) \/ \E s \in Server : UpdateRateLimiter(r, s)
      PROVE  SaverUp'
  <2>1. /\ server' = server /\ save'[r].by = save[r].by /\ r \in Saving
        /\ \A q \in Request : q # r => save'[q] = save[q]
    BY <1>4 DEF UpdateChatflow, UpdateRateLimiter, TypeInv, Save0, Saving
  <2> QED
    BY <2>1 DEF SaverUp, Saving, Up
<1> QED
  BY <1>1, <1>2, <1>3, <1>4 DEF Next

(* The types are preserved by every step.                                  *)
LEMMA TypeNext == TypeInv /\ SaverUp /\ [Next]_vars => TypeInv' /\ SaverUp'
<1> SUFFICES ASSUME TypeInv, SaverUp, [Next]_vars PROVE TypeInv' /\ SaverUp'
  OBVIOUS
<1>1. CASE UNCHANGED vars
  BY <1>1 DEF vars, TypeInv, Up, SaverUp, Saving
<1>2. CASE Next
  BY <1>2, TypeStarts, TypeStop, TypeReceive, TypeReadChatflow, TypeUpdateRateLimiter,
     TypeUpdateChatflow, SaverStays DEF Next
<1> QED
  BY <1>1, <1>2

LEMMA SaverInit == Init => SaverUp
BY DEF Init, SaverUp, Saving

(* TypeInv is an invariant, and so is SaverUp.                             *)
THEOREM TypeInvariant == Spec => [](TypeInv /\ SaverUp)
BY TypeInit, SaverInit, TypeNext, PTL DEF Spec

(* Only a server that is up has a limiter, and in main mode there is one,  *)
(* for any number of servers and requests.                                 *)
THEOREM RateLimiterTypes == Spec => []RateLimiterTypeOK
<1>1. TypeInv => RateLimiterTypeOK
  <2> SUFFICES ASSUME TypeInv PROVE RateLimiterTypeOK
    OBVIOUS
  <2>1. ASSUME mode = "main" PROVE Cardinality({s \in Server : server[s].pc # "down"}) =< 1
    <3> DEFINE up == {s \in Server : server[s].pc # "down"}
    <3>1. CASE up = {}
      BY <3>1, FS_EmptySet
    <3>2. CASE up # {}
      <4>1. PICK x \in Server : x \in up
        BY <3>2
      <4>2. up = {x}
        BY <2>1, <4>1 DEF TypeInv
      <4> QED
        BY <4>2, FS_Singleton
    <3> QED
      BY <3>1, <3>2
  <2> QED
    BY <2>1 DEF TypeInv, RateLimiterTypeOK, Setting
<1> QED
  BY <1>1, TypeInvariant, PTL
-----------------------------------------------------------------------------
(* Servers agree.                                                          *)

LEMMA AgreeInit == Init => AgreeInv
BY DEF Init, AgreeInv, Informed

LEMMA AgreeStarts ==
  ASSUME TypeInv, AgreeInv, NEW s \in Server, Start(s) \/ ReadFlows(s) \/ InitializeRateLimiters(s)
  PROVE  AgreeInv'
<1>1. \A t \in Server : Informed(t)' = Informed(t)
  BY DEF Informed, Start, ReadFlows, InitializeRateLimiters
<1>2. \A t \in Server : t # s => Final(t)' = Final(t)
  BY DEF TypeInv, Final, Start, ReadFlows, InitializeRateLimiters
<1>3. Informed(s) => Final(s)' = Final(s)
  BY DEF TypeInv, Informed, Final, Start, ReadFlows, InitializeRateLimiters, Up
<1> QED
  BY <1>1, <1>2, <1>3 DEF AgreeInv

LEMMA AgreeStop ==
  ASSUME TypeInv, AgreeInv, NEW s \in Server, Stop(s)
  PROVE  AgreeInv'
<1>1. ~Informed(s)'
  BY DEF TypeInv, Informed, Stop
<1>2. \A t \in Server : t # s => Informed(t)' = Informed(t) /\ Final(t)' = Final(t)
  BY DEF TypeInv, Informed, Final, Stop
<1> QED
  BY <1>1, <1>2 DEF AgreeInv

(* A server that handles an event enforces it: the last one stays the last.*)
LEMMA ReceiveFinal ==
  ASSUME TypeInv, NEW s \in Server, Receive(s)
  PROVE  /\ Informed(s) /\ (Informed(s)' => Final(s)' = Final(s))
         /\ Up(s) => Final(s)' = Final(s)
         /\ \A t \in Server : t # s => Informed(t)' = Informed(t) /\ Final(t)' = Final(t)
<1>1. events[s] \in Seq(Setting) /\ events[s] # <<>>
  BY DEF TypeInv, Receive
<1>2. /\ Tail(events[s]) # <<>> => Tail(events[s])[Len(Tail(events[s]))] = events[s][Len(events[s])]
      /\ Tail(events[s]) = <<>> => Head(events[s]) = events[s][Len(events[s])]
  BY <1>1, TailLast
<1>3. events'[s] = Tail(events[s])
  BY DEF TypeInv, Receive
<1>4. \A t \in Server : t # s => events'[t] = events[t] /\ limiter'[t] = limiter[t] /\ (t \in heard' <=> t \in heard)
  BY DEF TypeInv, Receive
<1>5. Up(s) => limiter'[s] = Head(events[s])
  BY DEF TypeInv, Receive, Handles
<1>6. ~Up(s) => s \notin heard'
  BY DEF TypeInv, Receive, Handles
<1> QED
  BY <1>1, <1>2, <1>3, <1>4, <1>5, <1>6 DEF Informed, Final

(* An event reaches every server that is not down.                         *)
LEMMA PublishedFinal ==
  ASSUME TypeInv, NEW r \in Request, NEW s \in Server, NEW body \in RateLimit, body = Sent(r),
         UpdateRateLimiter(r, s), mode = "queue", body # NoRateLimit
  PROVE  \A t \in Server :
           IF server[t].pc = "down" THEN ~Informed(t)' /\ events'[t] = <<>>
           ELSE Final(t)' = body.limit
<1>1. body.limit \in Setting
  BY DEF RateLimit, Setting
<1>2. events' = EventsAfter(s, body.limit) /\ heard' = heard /\ limiter' = limiter
  BY DEF UpdateRateLimiter
<1>3. ASSUME NEW t \in Server, server[t].pc = "down" PROVE ~Informed(t)' /\ events'[t] = <<>>
  BY <1>2, <1>3 DEF TypeInv, EventsAfter, Informed, Up
<1>4. ASSUME NEW t \in Server, server[t].pc # "down" PROVE Final(t)' = body.limit
  <2>1. events'[t] = Append(events[t], body.limit)
    BY <1>2, <1>4 DEF EventsAfter
  <2>2. events[t] \in Seq(Setting)
    BY DEF TypeInv
  <2> QED
    BY <1>1, <2>1, <2>2, AppendLast DEF Final
<1> QED
  BY <1>3, <1>4

LEMMA AgreeUpdateRateLimiter ==
  ASSUME TypeInv, AgreeInv, NEW r \in Request, NEW s \in Server, NEW body, body = Sent(r),
         UpdateRateLimiter(r, s)
  PROVE  AgreeInv'
<1>1. CASE mode = "main"
  BY <1>1 DEF TypeInv, UpdateRateLimiter, AgreeInv, Informed
<1>2. CASE mode = "queue" /\ body = NoRateLimit
  BY <1>2 DEF UpdateRateLimiter, AgreeInv, Informed, Final
<1>3. CASE mode = "queue" /\ body # NoRateLimit
  BY <1>3, SentRateLimit, PublishedFinal DEF AgreeInv
<1> QED
  BY <1>1, <1>2, <1>3 DEF TypeInv

LEMMA AgreeNext == TypeInv /\ AgreeInv /\ [Next]_vars => AgreeInv'
<1> SUFFICES ASSUME TypeInv, AgreeInv, [Next]_vars PROVE AgreeInv'
  OBVIOUS
<1>1. CASE UNCHANGED vars
  BY <1>1 DEF vars, AgreeInv, Informed, Final
<1>2. ASSUME NEW s \in Server, Receive(s) PROVE AgreeInv'
  BY <1>2, ReceiveFinal DEF AgreeInv
<1>3. ASSUME NEW r \in Request,
             \/ UpdateChatflow(r)
             \/ \E s \in Server, sent \in BOOLEAN, body \in RateLimit : ReadChatflow(r, s, sent, body)
      PROVE  AgreeInv'
  BY <1>3 DEF UpdateChatflow, ReadChatflow, AgreeInv, Informed, Final
<1>4. CASE Next
  BY <1>2, <1>3, <1>4, AgreeStarts, AgreeStop, AgreeUpdateRateLimiter DEF Next
<1> QED
  BY <1>1, <1>4

(* Servers that have heard of a change, and have handled all they were     *)
(* sent, enforce the same limit, for any number of servers.                *)
THEOREM ServersAlwaysAgree == Spec => []ServersAgree
<1>1. TypeInv /\ AgreeInv => ServersAgree
  BY DEF AgreeInv, ServersAgree, TypeInv, Informed, Final
<1>2. Spec => [](TypeInv /\ AgreeInv)
  BY TypeInvariant, AgreeInit, AgreeNext, PTL DEF Spec
<1> QED
  BY <1>1, <1>2, PTL
-----------------------------------------------------------------------------
(* What is stored is enforced.                                             *)

LEMMA DriftInit == Init => DriftInv
BY DEF Init, DriftInv, Saving, Starting, Up

LEMMA SavesKept ==
  ASSUME DriftInv, drift = {}, UNCHANGED <<mode, apiConfig, save>>
  PROVE  /\ \A r \in Request : Enforced(r)' = Enforced(r)
         /\ \A r \in Saving' : ~save'[r].sent => save'[r].body = apiConfig'
         /\ \A r \in Saving' : save'[r].pc = "read" /\ save'[r].sent => Plain(save[r].body)'
<1>1. Saving' = Saving
  BY DEF Saving
<1>2. \A body : Plain(body)' <=> Plain(body)
  BY DEF Plain
<1> QED
  BY <1>1, <1>2 DEF DriftInv, Enforced, Meant

(* A step of one server that keeps to what is stored.                      *)
LEMMA DriftOfServer ==
  ASSUME TypeInv, DriftInv, drift = {}, NEW s \in Server, UNCHANGED <<mode, apiConfig, save>>,
         \A t \in Server : t # s =>
           server'[t] = server[t] /\ events'[t] = events[t] /\ limiter'[t] = limiter[t],
         s \in Starting' =>
           /\ Saving = {} /\ events'[s] = <<>>
           /\ server'[s].pc = "loading" => server'[s].read = apiConfig,
         Up(s)' => Saving = {} /\ Final(s)' = Meant(apiConfig)
  PROVE  DriftInv'
<1>1. Saving' = Saving /\ Starting' \ {s} = Starting \ {s}
  BY DEF Saving, Starting
<1>2. \A q, r \in Saving' : q = r
  BY <1>1 DEF DriftInv
<1>3. Starting' # {} => Saving' = {}
  BY <1>1 DEF DriftInv
<1>4. ASSUME NEW t \in Starting'
      PROVE  events'[t] = <<>> /\ (server'[t].pc = "loading" => server'[t].read = apiConfig')
  <2>1. CASE t = s
    BY <1>4, <2>1
  <2>2. CASE t # s
    <3>1. t \in Starting /\ t \in Server
      BY <1>1, <1>4, <2>2 DEF Starting
    <3> QED
      BY <2>2, <3>1 DEF DriftInv
  <2> QED
    BY <2>1, <2>2
<1>5. ASSUME NEW t \in Server, Up(t)'
      PROVE  /\ Saving' = {} => Final(t)' = Meant(apiConfig')
             /\ \A r \in Saving' : Final(t)' = Enforced(r)'
  <2>1. CASE t = s
    BY <1>1, <1>5, <2>1
  <2>2. CASE t # s
    <3>1. Up(t) /\ Final(t)' = Final(t)
      BY <1>5, <2>2 DEF Up, Final
    <3>2. \A r \in Saving' : r \in Request
      BY DEF Saving
    <3> QED
      BY <1>1, <3>1, <3>2, SavesKept DEF DriftInv
  <2> QED
    BY <2>1, <2>2
<1> QED
  BY <1>2, <1>3, <1>4, <1>5, SavesKept DEF DriftInv

LEMMA DriftStarts ==
  ASSUME TypeInv, DriftInv, NEW s \in Server, Start(s) \/ ReadFlows(s) \/ InitializeRateLimiters(s)
  PROVE  DriftInv'
<1> SUFFICES ASSUME drift' = {} PROVE DriftInv'
  BY DEF DriftInv
<1>1. drift = {} /\ UNCHANGED <<mode, apiConfig, save, events>>
  BY DEF Start, ReadFlows, InitializeRateLimiters
<1>2. CASE Start(s)
  <2>1. Saving = {} /\ events[s] = <<>> /\ limiter' = limiter
    BY <1>2 DEF Start, TypeInv
  <2>2. server'[s].pc = "starting" /\ \A t \in Server : t # s => server'[t] = server[t]
    BY <1>2 DEF Start, TypeInv, Server0
  <2>3. ~Up(s)'
    BY <2>2 DEF Up
  <2> QED
    BY <1>1, <2>1, <2>2, <2>3, DriftOfServer
<1>3. CASE ReadFlows(s)
  <2>1. limiter' = limiter /\ s \in Starting
    BY <1>3 DEF ReadFlows, Starting
  <2>2. server'[s] = [pc |-> "loading", read |-> apiConfig] /\ \A t \in Server : t # s => server'[t] = server[t]
    BY <1>3 DEF ReadFlows, TypeInv
  <2>3. ~Up(s)'
    BY <2>2 DEF Up
  <2>4. Saving = {} /\ events[s] = <<>>
    BY <1>1, <2>1 DEF DriftInv
  <2> QED
    BY <1>1, <2>1, <2>2, <2>3, <2>4, DriftOfServer
<1>4. CASE InitializeRateLimiters(s)
  <2>1. s \in Starting /\ server[s].pc = "loading" /\ server[s].read \in RateLimit
    BY <1>4 DEF InitializeRateLimiters, Starting, TypeInv, Server0
  <2>2. Saving = {} /\ events[s] = <<>> /\ server[s].read = apiConfig
    BY <1>1, <2>1 DEF DriftInv
  <2>3. limiter' = [limiter EXCEPT ![s] = Updated(NoLimiter, server[s].read)]
    BY <1>4 DEF InitializeRateLimiters
  <2>4. Updated(NoLimiter, server[s].read) = Meant(apiConfig)
    BY <2>1, <2>2, UpdatedValues
  <2>5. Final(s)' = Meant(apiConfig)
    BY <1>1, <2>2, <2>3, <2>4 DEF Final, TypeInv
  <2>6. server'[s].pc = "ready" /\ \A t \in Server : t # s => server'[t] = server[t]
    BY <1>4 DEF InitializeRateLimiters, TypeInv
  <2>7. s \notin Starting'
    BY <2>6 DEF Starting
  <2>8. \A t \in Server : t # s => limiter'[t] = limiter[t]
    BY <2>3 DEF TypeInv
  <2> QED
    BY <1>1, <2>2, <2>5, <2>6, <2>7, <2>8, DriftOfServer
<1> QED
  BY <1>2, <1>3, <1>4

LEMMA DriftStop ==
  ASSUME TypeInv, DriftInv, NEW s \in Server, Stop(s)
  PROVE  DriftInv'
<1> SUFFICES ASSUME drift' = {} PROVE DriftInv'
  BY DEF DriftInv
<1>1. drift = {} /\ \A r \in Saving : save[r].by # {s}
  BY DEF Stop
<1>2. save' = save /\ apiConfig' = apiConfig /\ mode' = mode
  BY <1>1 DEF Stop, TypeInv
<1>3. server'[s].pc = "down"
  BY DEF Stop, TypeInv
<1>4. \A t \in Server : t # s => server'[t] = server[t] /\ events'[t] = events[t] /\ limiter'[t] = limiter[t]
  BY DEF Stop, TypeInv
<1>5. s \notin Starting' /\ ~Up(s)'
  BY <1>3 DEF Starting, Up
<1> QED
  BY <1>1, <1>2, <1>4, <1>5, DriftOfServer

LEMMA DriftReceive ==
  ASSUME TypeInv, DriftInv, NEW s \in Server, Receive(s)
  PROVE  DriftInv'
<1> SUFFICES ASSUME drift = {} PROVE DriftInv'
  BY DEF DriftInv, Receive
<1>1. UNCHANGED <<mode, apiConfig, server, save, drift>> /\ events[s] # <<>>
  BY DEF Receive
<1>2. Saving' = Saving /\ Starting' = Starting
  BY <1>1 DEF Saving, Starting
<1>3. s \notin Starting
  BY <1>1 DEF DriftInv
<1>4. \A t \in Server : t # s => events'[t] = events[t]
  BY DEF TypeInv, Receive
<1>5. \A t \in Server : Up(t) => Final(t)' = Final(t)
  BY ReceiveFinal
<1>6. \A r \in Saving' : r \in Request
  BY DEF Saving
<1> QED
  BY <1>1, <1>2, <1>3, <1>4, <1>5, <1>6, SavesKept DEF DriftInv, Up, Starting

(* Without a drift a save is alone and no server is starting; what it sets *)
(* means what a server makes of it.                                        *)
LEMMA DriftReadChatflow ==
  ASSUME TypeInv, DriftInv, NEW r \in Request, NEW s \in Server, NEW sent \in BOOLEAN,
         NEW body \in RateLimit, ReadChatflow(r, s, sent, body)
  PROVE  DriftInv'
<1> SUFFICES ASSUME drift' = {} PROVE DriftInv'
  BY DEF DriftInv
<1>1. drift = {} /\ Drifts(sent, body) = {}
  BY DEF ReadChatflow
<1>2. Saving = {} /\ Starting = {} /\ (sent => Plain(body))
  <2>1. \A why \in {"overlap", "start", "fields"} : why \notin Drifts(sent, body)
    BY <1>1
  <2> QED
    BY <2>1 DEF Drifts, Plain
<1>3. /\ UNCHANGED <<mode, server, apiConfig, events, limiter>> /\ Starting' = {}
      /\ Saving' = {r} /\ save'[r].pc = "read" /\ save'[r].sent = sent
      /\ save'[r].body = IF sent THEN body ELSE apiConfig
  BY <1>2 DEF ReadChatflow, TypeInv, Save0, Saving, Starting
<1>4. Enforced(r)' = Meant(apiConfig)
  BY <1>3 DEF Enforced, Meant
<1>5. sent => Plain(body)'
  BY <1>2, <1>3 DEF Plain
<1> QED
  BY <1>1, <1>2, <1>3, <1>4, <1>5 DEF DriftInv, Up, Final

(* The save is alone, and every server that is not down is up.             *)
LEMMA DriftUpdateRateLimiter ==
  ASSUME TypeInv, SaverUp, DriftInv, NEW r \in Request, NEW s \in Server, UpdateRateLimiter(r, s)
  PROVE  DriftInv'
<1> SUFFICES ASSUME drift = {} PROVE DriftInv'
  BY DEF DriftInv, UpdateRateLimiter
<1> DEFINE body == save[r].body
<1>1. /\ r \in Saving /\ save[r].pc = "read" /\ body \in RateLimit /\ save[r].sent \in BOOLEAN
      /\ Saving = {r} /\ Starting = {}
  BY DEF DriftInv, UpdateRateLimiter, Saving, TypeInv, Save0
<1>2. /\ UNCHANGED <<mode, server, apiConfig>> /\ Starting' = {}
      /\ Saving' = {r} /\ save'[r] = [save[r] EXCEPT !.pc = "update"]
  BY <1>1 DEF UpdateRateLimiter, TypeInv, Save0, Saving, Starting
<1>3. save'[r].body = body /\ save'[r].pc = "update" /\ save'[r].sent = save[r].sent
  BY <1>2 DEF TypeInv, Save0
<1>4. ASSUME NEW t \in Server, Up(t) PROVE Final(t)' = Meant(body)
  <2>1. CASE ~save[r].sent
    <3>1. Sent(r) = NoRateLimit /\ body = apiConfig
      BY <1>1, <2>1 DEF Sent, DriftInv
    <3>2. Final(t) = Meant(apiConfig)
      BY <1>1, <1>4 DEF DriftInv, Enforced
    <3>3. events' = events /\ limiter' = limiter
      BY <3>1 DEF UpdateRateLimiter, TypeInv, Updated
    <3> QED
      BY <3>1, <3>2, <3>3 DEF Final
  <2>2. CASE save[r].sent
    <3>1. Sent(r) = body /\ Plain(body)
      BY <1>1, <2>2 DEF Sent, DriftInv
    <3>2. CASE mode = "queue"
      <4>1. Final(t)' = body.limit
        BY <1>1, <1>4, <3>1, <3>2, PublishedFinal DEF Up, Plain
      <4> QED
        BY <3>1, <3>2, <4>1 DEF Meant, Plain
    <3>3. CASE mode = "main"
      <4>1. Up(s)
        BY <1>1 DEF SaverUp, UpdateRateLimiter
      <4>2. t = s /\ events' = events /\ events[t] = <<>>
        BY <1>4, <3>3, <4>1 DEF TypeInv, UpdateRateLimiter, Up
      <4>3. limiter'[s] = Updated(limiter[s], body)
        BY <3>1, <3>3 DEF TypeInv, UpdateRateLimiter
      <4> QED
        BY <1>1, <3>1, <3>3, <4>2, <4>3 DEF Final, Updated, Meant, Plain, RateLimit
    <3> QED
      BY <3>2, <3>3 DEF TypeInv
  <2> QED
    BY <2>1, <2>2
<1>5. ~save'[r].sent => save'[r].body = apiConfig'
  BY <1>1, <1>2, <1>3 DEF DriftInv
<1> QED
  BY <1>2, <1>3, <1>4, <1>5 DEF DriftInv, Enforced, Up

LEMMA DriftUpdateChatflow ==
  ASSUME TypeInv, DriftInv, NEW r \in Request, UpdateChatflow(r)
  PROVE  DriftInv'
<1> SUFFICES ASSUME drift' = {} PROVE DriftInv'
  BY DEF DriftInv
<1>1. drift = {} /\ apiConfig' = save[r].body /\ r \in Saving /\ save[r].pc = "update"
  BY DEF UpdateChatflow, Saving
<1>2. UNCHANGED <<limiter, server, events>> /\ Starting' = Starting
  BY DEF UpdateChatflow, Starting
<1>3. Saving' = Saving \ {r}
  BY DEF UpdateChatflow, TypeInv, Save0, Saving
<1>4. Saving' = {} /\ Starting = {}
  BY <1>1, <1>3 DEF DriftInv
<1> QED
  BY <1>1, <1>2, <1>4 DEF DriftInv, Enforced, Up, Final

LEMMA DriftNext == TypeInv /\ SaverUp /\ DriftInv /\ [Next]_vars => DriftInv'
<1> SUFFICES ASSUME TypeInv, SaverUp, DriftInv, [Next]_vars PROVE DriftInv'
  OBVIOUS
<1>1. CASE UNCHANGED vars
  BY <1>1 DEF vars, DriftInv, Saving, Starting, Up, Final, Enforced, Meant, Plain
<1>2. CASE Next
  BY <1>2, DriftStarts, DriftStop, DriftReceive, DriftReadChatflow,
     DriftUpdateRateLimiter, DriftUpdateChatflow DEF Next
<1> QED
  BY <1>1, <1>2

(* Unless one of the named causes got in between, every server enforces    *)
(* the stored setting once saves and events are done, for any number of    *)
(* servers.                                                                *)
THEOREM StoredAlwaysEnforced == Spec => []StoredIsEnforced
<1>1. DriftInv => StoredIsEnforced
  BY DEF DriftInv, StoredIsEnforced, Stored, Meant, Final
<1>2. Spec => [](TypeInv /\ DriftInv)
  BY TypeInvariant, DriftInit, DriftNext, PTL DEF Spec
<1> QED
  BY <1>1, <1>2, PTL
=============================================================================
