------------------------- MODULE LinkedInClientProofs -------------------------
(***************************************************************************)
(* The rate limiter and the tokens, for any threads, quota, window and     *)
(* life of a token.                                                        *)
(***************************************************************************)
EXTENDS LinkedInClient, FiniteSetTheorems, TLAPS

USE QuotaAssumption, TokenAssumption, CallsAssumption

-----------------------------------------------------------------------------
(* Types *)

Limiter == [remaining : Int, max : {DefaultCalls, Limit}, reset : {None} \cup 0 .. Window,
            lock : Threads \cup {None}]
Headers == {NoHeaders} \cup [remaining : 0 .. Limit, reset : 0 .. Window]
Call    == [pc : PCs, token : Token, sleep : 0 .. Window + 1, reply : Headers]
Excuses == {"unheard", "overlap", "blind", "unexplained"}

Types ==
    /\ limiter \in Limiter
    /\ server \in [used : 0 .. Limit, window : 1 .. Window]
    /\ settings \in [token : Token, refresh : {"none", "valid", "rotated"}]
    /\ call \in [Threads -> Call]
    /\ started \in 0 .. MaxCalls
    /\ excuses \subseteq Excuses

\* Who sleeps holds the lock, and who holds it sleeps.
Locked == \A t \in Threads : At(t, "sleep") <=> limiter.lock = t

\* Operations that have not passed the limiter.
Waiting == {t \in Threads : call[t].pc \in {"register", "put", "delete", "queue", "sleep"}}

\* Every operation takes one call from the limiter, none takes two.
Bounded ==
    /\ limiter.remaining <= DefaultCalls + Limit
    /\ started >= Cardinality(Waiting)
    /\ limiter.remaining >= 0 \/ limiter.remaining + started >= Cardinality(Waiting)

TypeInv == Types /\ Locked /\ Bounded

LEMMA IdleType == NoToken \in Token /\ IdleCall \in Call /\ IdleCall.pc = "idle"
<1>1. NoToken \in Token
  BY DEF NoToken, Token, None
<1> QED BY <1>1 DEF IdleCall, Call, PCs, Headers

LEMMA ExcuseType ==
  ASSUME Types, NEW cond, NEW why \in Excuses
  PROVE  Excuse(cond, why) \subseteq Excuses
  BY DEF Excuse, Types

\* One thread moves on and takes nothing along.
LEMMA Moves ==
  ASSUME Types, NEW t \in Threads, NEW p \in PCs, Goto(t, p)
  PROVE  /\ call' \in [Threads -> Call] /\ call'[t] = [call[t] EXCEPT !.pc = p] /\ call'[t].pc = p
         /\ call'[t].token = call[t].token /\ call'[t].sleep = call[t].sleep
         /\ call'[t].reply = call[t].reply
         /\ \A d \in Threads \ {t} : call'[d] = call[d]
<1>1. call \in [Threads -> Call] /\ call' = [call EXCEPT ![t] = [call[t] EXCEPT !.pc = p]]
  BY DEF Types, Goto
<1>2. call[t] \in Call
  BY <1>1
<1>3. [call[t] EXCEPT !.pc = p] \in Call
  BY <1>2 DEF Call
<1>4. call' \in [Threads -> Call]
  BY <1>1, <1>3
<1>5. call'[t] = [call[t] EXCEPT !.pc = p] /\ \A d \in Threads \ {t} : call'[d] = call[d]
  BY <1>1
<1> QED BY <1>2, <1>4, <1>5 DEF Call

LEMMA Stops ==
  ASSUME Types, NEW t \in Threads, Ends(t)
  PROVE  /\ call' \in [Threads -> Call] /\ call'[t] = IdleCall
         /\ \A d \in Threads \ {t} : call'[d] = call[d]
  BY IdleType DEF Types, Ends

LEMMA Begins ==
  ASSUME Types, NEW t \in Threads, NEW p \in {"register", "queue", "delete"}, Begin(t, p)
  PROVE  /\ call' \in [Threads -> Call] /\ call'[t].pc = p /\ call'[t].token = settings.token
         /\ \A d \in Threads \ {t} : call'[d] = call[d]
         /\ At(t, "idle") /\ started' = started + 1 /\ started' \in 0 .. MaxCalls
         /\ UNCHANGED <<limiter, server, settings, excuses>>
<1> DEFINE c == [IdleCall EXCEPT !.pc = p, !.token = settings.token]
<1>1. call' = [call EXCEPT ![t] = c] /\ settings.token \in Token
  BY DEF Begin, Types
<1>2. c \in Call /\ c.pc = p /\ c.token = settings.token
  BY <1>1, IdleType DEF Call, PCs
<1> HIDE DEF c
<1>3. call' \in [Threads -> Call] /\ call'[t] = c /\ \A d \in Threads \ {t} : call'[d] = call[d]
  BY <1>1, <1>2 DEF Types
<1> QED BY <1>2, <1>3 DEF Begin, Types

\* The bearer of a request: the token that was there, or a new one.
LEMMA Bearer ==
  ASSUME Types, NEW t \in Threads, NEW p \in PCs, WithBearer(t, p)
  PROVE  /\ call' \in [Threads -> Call] /\ call'[t].pc = p
         /\ call'[t].reply = call[t].reply
         /\ \A d \in Threads \ {t} : call'[d] = call[d]
         /\ settings' \in [token : Token, refresh : {"none", "valid", "rotated"}]
         /\ settings'.token = settings.token /\ (settings'.refresh = "none" <=> settings.refresh = "none")
         /\ IF NeedsRefresh(t) THEN /\ call'[t].token.life = Life
                                    /\ call'[t].token.expiry \in {Life, call[t].token.expiry}
            ELSE call'[t].token = call[t].token
         /\ UNCHANGED <<limiter, server, started, excuses>>
<1>1. call[t] \in Call /\ call \in [Threads -> Call] /\ call[t].token \in Token
      /\ settings \in [token : Token, refresh : {"none", "valid", "rotated"}]
  BY DEF Types, Call
<1>2. CASE ~NeedsRefresh(t)
  BY <1>1, <1>2, Moves DEF WithBearer
<1>3. CASE NeedsRefresh(t)
  <2>1. PICK expiry \in {Life, call[t].token.expiry}, rotates \in BOOLEAN :
          /\ call' = [call EXCEPT ![t] = [call[t] EXCEPT !.pc = p,
               !.token = [life |-> Life, expiry |-> expiry, own |-> call[t].token.own \/ rotates]]]
          /\ settings' = IF rotates THEN [settings EXCEPT !.refresh = "rotated"] ELSE settings
    BY <1>1, <1>3 DEF WithBearer, Refreshed
  <2> DEFINE k == [life |-> Life, expiry |-> expiry, own |-> call[t].token.own \/ rotates]
             c == [call[t] EXCEPT !.pc = p, !.token = k]
  <2>2. k \in Token /\ k.life = Life /\ k.expiry = expiry
    BY <1>1 DEF Token
  <2> HIDE DEF k
  <2>3. c \in Call /\ c.pc = p /\ c.token = k /\ c.reply = call[t].reply
    BY <1>1, <2>2 DEF Call
  <2>4. call' = [call EXCEPT ![t] = c]
    BY <2>1 DEF k
  <2> HIDE DEF c
  <2>5. call' \in [Threads -> Call] /\ call'[t] = c /\ \A d \in Threads \ {t} : call'[d] = call[d]
    BY <1>1, <2>3, <2>4
  <2>6. settings.refresh # "none"
    BY <1>3 DEF NeedsRefresh
  <2>7. /\ settings' \in [token : Token, refresh : {"none", "valid", "rotated"}]
        /\ settings'.token = settings.token /\ settings'.refresh # "none"
    BY <1>1, <2>1, <2>6
  <2> QED BY <1>3, <2>2, <2>3, <2>5, <2>6, <2>7 DEF WithBearer
<1> QED BY <1>2, <1>3

LEMMA Resets ==
  ASSUME Types
  PROVE  /\ Current \in Limiter /\ Current.lock = limiter.lock
         /\ Current.remaining = IF Due THEN limiter.max ELSE limiter.remaining
         /\ AfterSleep \in Limiter /\ AfterSleep.lock = limiter.lock
         /\ AfterSleep.remaining = IF limiter.reset = None THEN limiter.remaining ELSE limiter.max
         /\ limiter.max \in Nat \ {0} /\ limiter.max <= DefaultCalls + Limit /\ limiter.remaining \in Int
         /\ limiter.max \in {DefaultCalls, Limit}
         /\ Current.reset \in {None} \cup 0 .. Window
<1>1. limiter \in Limiter /\ limiter.max \in Nat \ {0} /\ limiter.max <= DefaultCalls + Limit
      /\ limiter.max \in {DefaultCalls, Limit} /\ limiter.remaining \in Int
  BY DEF Types, Limiter
<1>2. PICK l, m : l = [limiter EXCEPT !.remaining = m, !.reset = None] /\ m = limiter.max
  OBVIOUS
<1>3. l \in Limiter /\ l.remaining = limiter.max /\ l.lock = limiter.lock
  <2>1. m \in Int
    BY <1>1, <1>2
  <2> QED BY <1>1, <1>2, <2>1 DEF Limiter
<1>4. Current = IF Due THEN l ELSE limiter
  BY <1>2 DEF Current
<1>5. AfterSleep = IF limiter.reset = None THEN limiter ELSE l
  BY <1>2 DEF AfterSleep
<1>6. \A k \in Limiter : k.reset \in {None} \cup 0 .. Window
  BY DEF Limiter
<1> QED BY <1>1, <1>3, <1>4, <1>5, <1>6

\* The limiter lets t through.
LEMMA Passes ==
  ASSUME Types, NEW t \in Threads, TakeToken(t) \/ Wake(t)
  PROVE  /\ call' \in [Threads -> Call] /\ call'[t] = [call[t] EXCEPT !.pc = "headers"]
         /\ \A d \in Threads \ {t} : call'[d] = call[d]
         /\ call[t].pc \in {"queue", "sleep"}
         /\ limiter' \in Limiter /\ limiter'.lock = None
         /\ limiter'.remaining = (IF TakeToken(t) THEN Current.remaining ELSE AfterSleep.remaining) - 1
         /\ excuses' \subseteq Excuses /\ UNCHANGED <<server, settings, started>>
<1>1. call' \in [Threads -> Call] /\ call'[t] = [call[t] EXCEPT !.pc = "headers"]
      /\ \A d \in Threads \ {t} : call'[d] = call[d]
  BY Moves DEF TakeToken, Wake, PCs
<1>2. TakeToken(t) => limiter.lock = None
  BY DEF TakeToken
<1>3. limiter' \in Limiter /\ limiter'.lock = None
      /\ limiter'.remaining = (IF TakeToken(t) THEN Current.remaining ELSE AfterSleep.remaining) - 1
  <2>1. CASE TakeToken(t)
    <3>1. limiter' = [Current EXCEPT !.remaining = Current.remaining - 1]
      BY <2>1 DEF TakeToken
    <3> QED BY <1>2, <2>1, <3>1, Resets DEF Limiter
  <2>2. CASE Wake(t) /\ ~TakeToken(t)
    <3>1. limiter' = [AfterSleep EXCEPT !.remaining = AfterSleep.remaining - 1, !.lock = None]
      BY <2>2 DEF Wake
    <3>2. PICK l, r : l = AfterSleep /\ r = AfterSleep.remaining - 1
      OBVIOUS
    <3>3. l \in Limiter /\ r \in Int
      BY <3>2, Resets DEF Limiter
    <3>4. limiter' = [l EXCEPT !.remaining = r, !.lock = None]
      BY <3>1, <3>2
    <3>5. limiter' \in Limiter /\ limiter'.lock = None /\ limiter'.remaining = r
      BY <3>3, <3>4 DEF Limiter
    <3> QED BY <2>2, <3>2, <3>5
  <2> QED BY <2>1, <2>2
<1>4. excuses' \subseteq Excuses
  BY ExcuseType DEF TakeToken, Wake, Types, Excuses
<1> QED BY <1>1, <1>3, <1>4 DEF TakeToken, Wake, At

\* LinkedIn serves t.
LEMMA Serves ==
  ASSUME Types, NEW t \in Threads, Serve(t)
  PROVE  /\ call' \in [Threads -> Call] /\ call'[t].pc = "reply" /\ call'[t].token = call[t].token
         /\ \A d \in Threads \ {t} : call'[d] = call[d]
         /\ At(t, "send")
         /\ server' \in [used : 0 .. Limit, window : 1 .. Window]
         /\ server'.used = IF server.used < Limit THEN server.used + 1 ELSE Limit
         /\ excuses' = Excuse(server.used = Limit /\ excuses = {}, "unexplained")
         /\ excuses' \subseteq Excuses
         /\ UNCHANGED <<limiter, settings, started>>
<1> DEFINE used == IF server.used < Limit THEN server.used + 1 ELSE Limit
<1>1. server \in [used : 0 .. Limit, window : 1 .. Window] /\ used \in 0 .. Limit
      /\ call[t] \in Call /\ call \in [Threads -> Call]
  BY DEF Types
<1>2. PICK h \in {NoHeaders, [remaining |-> Limit - used, reset |-> server.window]} :
        call' = [call EXCEPT ![t] = [call[t] EXCEPT !.pc = "reply", !.reply = h]]
  BY DEF Serve
<1> HIDE DEF used
<1>3. h \in Headers
  <2>1. Limit - used \in 0 .. Limit /\ server.window \in 0 .. Window
    BY <1>1
  <2> QED BY <1>2, <2>1 DEF Headers
<1> DEFINE c == [call[t] EXCEPT !.pc = "reply", !.reply = h]
<1>4. c \in Call /\ c.pc = "reply" /\ c.token = call[t].token
  BY <1>1, <1>3 DEF Call, PCs
<1> HIDE DEF c
<1>5. call' \in [Threads -> Call] /\ call'[t] = c /\ \A d \in Threads \ {t} : call'[d] = call[d]
  BY <1>1, <1>2, <1>4 DEF c
<1>6. server' \in [used : 0 .. Limit, window : 1 .. Window] /\ server'.used = used
  BY <1>1 DEF Serve, used
<1> QED BY <1>4, <1>5, <1>6, ExcuseType DEF Serve, Excuses, used

LEMMA Sleeps ==
  ASSUME Types, NEW t \in Threads, GoToSleep(t)
  PROVE  /\ call' \in [Threads -> Call] /\ call'[t].pc = "sleep" /\ call'[t].token = call[t].token
         /\ \A d \in Threads \ {t} : call'[d] = call[d]
         /\ At(t, "queue") /\ limiter.lock = None
         /\ limiter' \in Limiter /\ limiter'.lock = t /\ limiter'.remaining = limiter.remaining
         /\ limiter.remaining <= 0
         /\ UNCHANGED <<server, settings, started, excuses>>
<1>1. SleepFor \in 0 .. Window + 1 /\ call[t] \in Call /\ call \in [Threads -> Call]
  BY Resets DEF SleepFor, Types
<1> DEFINE c == [call[t] EXCEPT !.pc = "sleep", !.sleep = SleepFor]
<1>2. call' = [call EXCEPT ![t] = c]
  BY DEF GoToSleep
<1>3. c \in Call /\ c.pc = "sleep" /\ c.token = call[t].token
  BY <1>1 DEF Call, PCs
<1> HIDE DEF c
<1>4. call' \in [Threads -> Call] /\ call'[t] = c /\ \A d \in Threads \ {t} : call'[d] = call[d]
  BY <1>1, <1>2, <1>3
<1>5. ~Due /\ Current = limiter
  BY Resets DEF GoToSleep, Current
<1>6. limiter' \in Limiter /\ limiter'.lock = t /\ limiter'.remaining = limiter.remaining
  <2>1. limiter' = [limiter EXCEPT !.lock = t] /\ limiter \in Limiter
    BY <1>5 DEF GoToSleep, Types
  <2> QED BY <2>1 DEF Limiter
<1> QED BY <1>3, <1>4, <1>5, <1>6 DEF GoToSleep

\* The limiter hears of a reply.
LEMMA Hears ==
  ASSUME Types, NEW t \in Threads, UpdateFromHeaders(t)
  PROVE  /\ call' \in [Threads -> Call] /\ call'[t] = IdleCall
         /\ \A d \in Threads \ {t} : call'[d] = call[d]
         /\ At(t, "reply") /\ limiter.lock = None
         /\ limiter' \in Limiter /\ limiter'.lock = None
         /\ IF call[t].reply = NoHeaders THEN UNCHANGED <<limiter, excuses>>
            ELSE /\ limiter'.remaining = call[t].reply.remaining
                 /\ limiter'.remaining \in 0 .. Limit
                 /\ excuses' = (excuses \cap {"unexplained"})
                                 \cup (IF Misses(t, limiter'.remaining) THEN {"overlap"} ELSE {})
         /\ excuses' \subseteq Excuses
         /\ UNCHANGED <<server, settings, started>>
<1>1. call[t] \in Call /\ limiter \in Limiter
  BY DEF Types
<1>2. /\ At(t, "reply") /\ limiter.lock = None /\ Ends(t) /\ UNCHANGED <<server, settings, started>>
  BY DEF UpdateFromHeaders
<1>3. CASE call[t].reply = NoHeaders
  BY <1>1, <1>2, <1>3, Stops DEF UpdateFromHeaders, Types
<1>4. CASE call[t].reply # NoHeaders
  <2>1. call[t].reply.remaining \in 0 .. Limit /\ call[t].reply.reset \in 0 .. Window
    BY <1>1, <1>4 DEF Call, Headers
  <2>2. limiter' = [limiter EXCEPT !.remaining = call[t].reply.remaining, !.max = Limit,
                                   !.reset = call[t].reply.reset]
        /\ excuses' = (excuses \cap {"unexplained"})
                        \cup (IF Misses(t, call[t].reply.remaining) THEN {"overlap"} ELSE {})
    BY <1>4 DEF UpdateFromHeaders
  <2>3. limiter' \in Limiter /\ limiter'.lock = None /\ limiter'.remaining = call[t].reply.remaining
    <3>1. PICK r, s : r = call[t].reply.remaining /\ s = call[t].reply.reset
      OBVIOUS
    <3>2. limiter' = [limiter EXCEPT !.remaining = r, !.max = Limit, !.reset = s]
      BY <2>2, <3>1
    <3>3. r \in Int /\ s \in {None} \cup 0 .. Window
      BY <2>1, <3>1
    <3>4. limiter' \in Limiter /\ limiter'.lock = limiter.lock /\ limiter'.remaining = r
      BY <1>1, <3>2, <3>3 DEF Limiter
    <3> QED BY <1>2, <3>1, <3>4
  <2>4. excuses' \subseteq Excuses
    BY <2>2 DEF Excuses
  <2> QED BY <1>2, <1>4, <2>1, <2>2, <2>3, <2>4, Stops
<1> QED BY <1>3, <1>4

LEMMA LessType ==
  /\ \A n \in Nat : Less(n) \in Nat /\ Less(n) <= n
  /\ Less(None) = None
  /\ \A m, n \in Nat : m <= n => Less(m) <= Less(n)
  BY DEF Less, None

LEMMA OlderType ==
  ASSUME NEW k \in Token
  PROVE  /\ OlderToken(k) \in Token /\ OlderToken(k).life = Less(k.life)
         /\ OlderToken(k).expiry = Less(k.expiry)
<1>1. Less(k.life) \in 0 .. Life
  BY LessType DEF Token
<1>2. Less(k.expiry) \in {None} \cup 0 .. Life
  BY LessType DEF Token
<1> QED BY <1>1, <1>2 DEF OlderToken, Token

\* Time passes.
LEMMA Ages ==
  ASSUME Types, Tick
  PROVE  /\ call' \in [Threads -> Call]
         /\ \A t \in Threads : call'[t].pc = call[t].pc /\ call'[t].token = OlderToken(call[t].token)
                               /\ ~At(t, "send")
         /\ limiter' \in Limiter /\ limiter'.remaining = limiter.remaining /\ limiter'.lock = limiter.lock
         /\ server' \in [used : 0 .. Limit, window : 1 .. Window] /\ server'.used <= server.used
         /\ settings' \in [token : Token, refresh : {"none", "valid", "rotated"}]
         /\ settings'.token = OlderToken(settings.token) /\ settings'.refresh = settings.refresh
         /\ UNCHANGED <<started, excuses>>
<1> DEFINE old(t) == [call[t] EXCEPT !.sleep = Less(call[t].sleep), !.token = OlderToken(call[t].token),
                         !.reply = [call[t].reply EXCEPT !.reset = Less(call[t].reply.reset)]]
<1>1. ASSUME NEW t \in Threads
      PROVE  old(t) \in Call /\ old(t).pc = call[t].pc /\ old(t).token = OlderToken(call[t].token)
  <2>1. call[t] \in Call
    BY DEF Types
  <2>2. Less(call[t].sleep) \in 0 .. Window + 1 /\ OlderToken(call[t].token) \in Token
    BY <2>1, LessType, OlderType DEF Call
  <2>3. [call[t].reply EXCEPT !.reset = Less(call[t].reply.reset)] \in Headers
    <3>1. CASE call[t].reply = NoHeaders
      BY <3>1, LessType DEF NoHeaders, Headers
    <3>2. CASE call[t].reply \in [remaining : 0 .. Limit, reset : 0 .. Window]
      <4>1. Less(call[t].reply.reset) \in 0 .. Window
        BY <3>2, LessType
      <4> QED BY <3>2, <4>1 DEF Headers
    <3> QED BY <2>1, <3>1, <3>2 DEF Call, Headers
  <2> QED BY <2>1, <2>2, <2>3 DEF Call
<1>2. call' = [t \in Threads |-> old(t)] /\ \A t \in Threads : ~At(t, "send")
  BY DEF Tick
<1> HIDE DEF old
<1>3. limiter' \in Limiter /\ limiter'.remaining = limiter.remaining /\ limiter'.lock = limiter.lock
  <2>1. limiter \in Limiter /\ limiter' = [limiter EXCEPT !.reset = Less(limiter.reset)]
    BY DEF Types, Tick
  <2>2. Less(limiter.reset) \in {None} \cup 0 .. Window
    BY <2>1, LessType DEF Limiter
  <2> QED BY <2>1, <2>2 DEF Limiter
<1>4. server' \in [used : 0 .. Limit, window : 1 .. Window] /\ server'.used <= server.used
  <2>1. server \in [used : 0 .. Limit, window : 1 .. Window]
        /\ server' = IF server.window = 1 THEN [used |-> 0, window |-> Window]
                     ELSE [server EXCEPT !.window = server.window - 1]
    BY DEF Types, Tick
  <2>2. CASE server.window = 1
    BY <2>1, <2>2
  <2>3. CASE server.window # 1
    <3>1. server.window - 1 \in 1 .. Window
      BY <2>1, <2>3
    <3> QED BY <2>1, <2>3, <3>1
  <2> QED BY <2>2, <2>3
<1>5. /\ settings' \in [token : Token, refresh : {"none", "valid", "rotated"}]
      /\ settings'.token = OlderToken(settings.token) /\ settings'.refresh = settings.refresh
  <2>1. settings \in [token : Token, refresh : {"none", "valid", "rotated"}]
        /\ settings' = [settings EXCEPT !.token = OlderToken(settings.token)]
    BY DEF Types, Tick
  <2>2. OlderToken(settings.token) \in Token
    BY <2>1, OlderType
  <2> QED BY <2>1, <2>2
<1>6. call' \in [Threads -> Call]
  BY <1>1, <1>2
<1>7. \A t \in Threads : call'[t].pc = call[t].pc /\ call'[t].token = OlderToken(call[t].token)
  BY <1>1, <1>2
<1>8. UNCHANGED <<started, excuses>>
  BY DEF Tick
<1> QED BY <1>2, <1>3, <1>4, <1>5, <1>6, <1>7, <1>8

\* The steps that leave the limiter and LinkedIn alone.
Plain(t) == \/ RegisterUpload(t) \/ PutImage(t) \/ ImageFails(t) \/ DeletePost(t)
            \/ RequestFails(t) \/ SendPost(t) \/ PostFails(t)

LEMMA Plainly ==
  ASSUME Types, NEW t \in Threads, Plain(t)
  PROVE  /\ call' \in [Threads -> Call] /\ \A d \in Threads \ {t} : call'[d] = call[d]
         /\ settings' \in [token : Token, refresh : {"none", "valid", "rotated"}]
         /\ call[t].pc # "sleep" /\ call'[t].pc # "sleep" /\ call[t].pc # "idle"
         /\ call'[t].pc \in {"queue", "put"} => call[t].pc \in {"register", "put"}
         /\ call'[t].pc \in {"idle", "queue", "put", "send"}
         /\ call'[t].pc = "send" => call[t].pc = "headers" /\ WithBearer(t, "send")
         /\ \/ call'[t].pc = "idle"
            \/ call'[t].token = call[t].token /\ UNCHANGED settings
            \/ WithBearer(t, call'[t].pc)
         /\ settings'.token = settings.token /\ (settings'.refresh = "none" <=> settings.refresh = "none")
         /\ UNCHANGED <<limiter, server, started, excuses>>
<1>0. settings \in [token : Token, refresh : {"none", "valid", "rotated"}]
      /\ {"put", "queue", "idle", "send"} \subseteq PCs
  BY DEF Types, PCs
<1>1. ASSUME NEW p \in {"put", "queue", "idle", "send"}, WithBearer(t, p),
             call[t].pc \in {"register", "put", "delete", "headers"},
             p \in {"queue", "put"} => call[t].pc \in {"register", "put"},
             p = "send" => call[t].pc = "headers"
      PROVE  /\ call' \in [Threads -> Call] /\ \A d \in Threads \ {t} : call'[d] = call[d]
             /\ settings' \in [token : Token, refresh : {"none", "valid", "rotated"}]
             /\ call'[t].pc = p /\ WithBearer(t, call'[t].pc)
             /\ settings'.token = settings.token
             /\ (settings'.refresh = "none" <=> settings.refresh = "none")
             /\ UNCHANGED <<limiter, server, started, excuses>>
  BY <1>0, <1>1, Bearer
<1>2. CASE RegisterUpload(t)
  BY <1>1, <1>2 DEF RegisterUpload, At
<1>3. CASE PutImage(t)
  BY <1>1, <1>3 DEF PutImage, At
<1>4. CASE DeletePost(t)
  BY <1>1, <1>4 DEF DeletePost, At
<1>5. CASE SendPost(t)
  BY <1>1, <1>5 DEF SendPost, At
<1>6. CASE ImageFails(t)
  <2>1. Goto(t, "queue") /\ call[t].pc \in {"register", "put"}
        /\ UNCHANGED <<limiter, server, settings, started, excuses>>
    BY <1>6 DEF ImageFails
  <2> QED BY <1>0, <2>1, Moves
<1>7. CASE RequestFails(t) \/ PostFails(t)
  <2>1. Ends(t) /\ call[t].pc \in {"delete", "headers", "send", "reply"}
        /\ UNCHANGED <<limiter, server, settings, started, excuses>>
    BY <1>7 DEF RequestFails, PostFails
  <2> QED BY <1>0, <2>1, Stops, IdleType
<1> QED BY <1>2, <1>3, <1>4, <1>5, <1>6, <1>7 DEF Plain

LEMMA Steps ==
  ASSUME [ClientNext]_clientVars
  PROVE  \/ UNCHANGED clientVars \/ Tick
         \/ \E t \in Threads :
              \/ \E p \in {"register", "queue", "delete"} : Begin(t, p)
              \/ Plain(t) \/ TakeToken(t) \/ Wake(t) \/ GoToSleep(t) \/ Serve(t) \/ UpdateFromHeaders(t)
  BY DEF ClientNext, ThreadStep, Plain

LEMMA TypesStep == ASSUME Types, [ClientNext]_clientVars PROVE Types'
<1>1. CASE UNCHANGED clientVars
  BY <1>1 DEF clientVars, Types
<1>2. CASE Tick
  BY <1>2, Ages DEF Types
<1>3. ASSUME NEW t \in Threads, NEW p \in {"register", "queue", "delete"}, Begin(t, p) PROVE Types'
  BY <1>3, Begins DEF Types
<1>4. ASSUME NEW t \in Threads, Plain(t) PROVE Types'
  BY <1>4, Plainly DEF Types
<1>5. ASSUME NEW t \in Threads, TakeToken(t) \/ Wake(t) PROVE Types'
  BY <1>5, Passes DEF Types
<1>6. ASSUME NEW t \in Threads, GoToSleep(t) PROVE Types'
  BY <1>6, Sleeps DEF Types
<1>7. ASSUME NEW t \in Threads, Serve(t) PROVE Types'
  BY <1>7, Serves DEF Types
<1>8. ASSUME NEW t \in Threads, UpdateFromHeaders(t) PROVE Types'
  BY <1>8, Hears DEF Types
<1> QED BY <1>1, <1>2, <1>3, <1>4, <1>5, <1>6, <1>7, <1>8, Steps

\* What a step of one thread does to the lock.
LEMMA LockedStep == ASSUME Types, Locked, [ClientNext]_clientVars PROVE Locked'
<1>0. None \notin Threads
  BY ThreadsAssumption DEF None
<1>1. CASE UNCHANGED clientVars
  BY <1>1 DEF clientVars, Locked, At
<1>2. CASE Tick
  BY <1>2, Ages DEF Locked, At
<1>3. ASSUME NEW t \in Threads, NEW p \in {"register", "queue", "delete"}, Begin(t, p) PROVE Locked'
  <2>1. call[t].pc # "sleep" /\ call'[t].pc # "sleep" /\ UNCHANGED limiter
        /\ \A d \in Threads \ {t} : call'[d] = call[d]
    BY <1>3, Begins DEF At
  <2> QED BY <2>1 DEF Locked, At
<1>4. ASSUME NEW t \in Threads, Plain(t) PROVE Locked'
  <2>1. call[t].pc # "sleep" /\ call'[t].pc # "sleep" /\ UNCHANGED limiter
        /\ \A d \in Threads \ {t} : call'[d] = call[d]
    BY <1>4, Plainly
  <2> QED BY <2>1 DEF Locked, At
<1>5. ASSUME NEW t \in Threads, TakeToken(t) \/ Wake(t) PROVE Locked'
  <2>1. call'[t].pc = "headers" /\ limiter'.lock = None /\ \A d \in Threads \ {t} : call'[d] = call[d]
    <3>1. call[t] \in Call
      BY DEF Types
    <3> QED BY <1>5, <3>1, Passes DEF Call
  <2>2. limiter.lock = None \/ limiter.lock = t
    BY <1>5 DEF TakeToken, Wake, Locked
  <2> QED BY <1>0, <2>1, <2>2 DEF Locked, At
<1>6. ASSUME NEW t \in Threads, GoToSleep(t) PROVE Locked'
  <2>1. call'[t].pc = "sleep" /\ limiter'.lock = t /\ limiter.lock = None
        /\ \A d \in Threads \ {t} : call'[d] = call[d]
    BY <1>6, Sleeps
  <2> QED BY <1>0, <2>1 DEF Locked, At
<1>7. ASSUME NEW t \in Threads, Serve(t) PROVE Locked'
  <2>1. call[t].pc = "send" /\ call'[t].pc = "reply" /\ UNCHANGED limiter
        /\ \A d \in Threads \ {t} : call'[d] = call[d]
    BY <1>7, Serves DEF At
  <2> QED BY <2>1 DEF Locked, At
<1>8. ASSUME NEW t \in Threads, UpdateFromHeaders(t) PROVE Locked'
  <2>1. call[t].pc = "reply" /\ call'[t].pc = "idle" /\ limiter'.lock = limiter.lock
        /\ \A d \in Threads \ {t} : call'[d] = call[d]
    BY <1>8, Hears, IdleType DEF At
  <2> QED BY <2>1 DEF Locked, At
<1> QED BY <1>1, <1>2, <1>3, <1>4, <1>5, <1>6, <1>7, <1>8, Steps

LEMMA Finite ==
  ASSUME NEW S \in SUBSET Threads, NEW T \in SUBSET Threads
  PROVE  /\ IsFiniteSet(S) /\ Cardinality(S) \in Nat
         /\ S \subseteq T => Cardinality(S) <= Cardinality(T)
         /\ \A t \in S : Cardinality(S \ {t}) = Cardinality(S) - 1
         /\ \A t \in Threads : Cardinality(S \cup {t}) <= Cardinality(S) + 1
<1>1. IsFiniteSet(S) /\ IsFiniteSet(T)
  BY ThreadsAssumption, FS_Subset
<1> QED BY <1>1, FS_CardinalityType, FS_Subset, FS_AddElement, FS_RemoveElement

LEMMA BoundedStays ==
  ASSUME Types, Bounded, limiter'.remaining = limiter.remaining, UNCHANGED started, Waiting' \subseteq Waiting
  PROVE  Bounded'
<1>1. /\ Cardinality(Waiting) \in Nat /\ Cardinality(Waiting') \in Nat
      /\ Cardinality(Waiting') <= Cardinality(Waiting)
  BY Finite DEF Waiting
<1>2. limiter.remaining \in Int /\ started \in Nat
  BY DEF Types, Limiter
<1> QED BY <1>1, <1>2 DEF Bounded

\* The waiting threads are counted when the limiter lets one through or hears of a reply.
LEMMA WaitingStays ==
  ASSUME Types, Bounded, UNCHANGED started, Waiting' \subseteq Waiting
  PROVE  started' >= Cardinality(Waiting')
<1>1. /\ Cardinality(Waiting) \in Nat /\ Cardinality(Waiting') \in Nat
      /\ Cardinality(Waiting') <= Cardinality(Waiting)
  BY Finite DEF Waiting
<1>2. started \in Nat
  BY DEF Types
<1> QED BY <1>1, <1>2 DEF Bounded

LEMMA BoundedStep == ASSUME Types, Bounded, [ClientNext]_clientVars PROVE Bounded'
<1>1. CASE UNCHANGED clientVars
  BY <1>1, BoundedStays DEF clientVars, Waiting
<1>2. CASE Tick
  <2>1. Waiting' \subseteq Waiting
    BY <1>2, Ages DEF Waiting
  <2> QED BY <1>2, <2>1, Ages, BoundedStays
<1>3. ASSUME NEW t \in Threads, NEW p \in {"register", "queue", "delete"}, Begin(t, p) PROVE Bounded'
  <2>1. /\ Waiting' \subseteq Waiting \cup {t} /\ started' = started + 1 /\ UNCHANGED limiter
    BY <1>3, Begins DEF Waiting
  <2>2. /\ Cardinality(Waiting) \in Nat /\ Cardinality(Waiting') \in Nat
        /\ Cardinality(Waiting') <= Cardinality(Waiting \cup {t})
        /\ Cardinality(Waiting \cup {t}) <= Cardinality(Waiting) + 1
        /\ Cardinality(Waiting \cup {t}) \in Nat
    <3>1. Waiting \in SUBSET Threads /\ Waiting' \in SUBSET Threads /\ Waiting \cup {t} \in SUBSET Threads
      BY DEF Waiting
    <3> QED BY <2>1, <3>1, Finite
  <2>3. limiter.remaining \in Int /\ started \in Nat
    BY DEF Types, Limiter
  <2> QED BY <2>1, <2>2, <2>3 DEF Bounded
<1>4. ASSUME NEW t \in Threads, Plain(t) PROVE Bounded'
  <2>1. Waiting' \subseteq Waiting /\ UNCHANGED <<limiter, started>>
    BY <1>4, Plainly DEF Waiting
  <2> QED BY <2>1, BoundedStays
<1>5. ASSUME NEW t \in Threads, TakeToken(t) PROVE Bounded'
  <2>1. limiter'.remaining = Current.remaining - 1 /\ Current.remaining > 0
    BY <1>5, Passes DEF TakeToken
  <2>2. Current.remaining \in Int /\ Current.remaining <= DefaultCalls + Limit
    BY Resets DEF Bounded
  <2>3. UNCHANGED started /\ Waiting' \subseteq Waiting
    <3>1. call[t] \in Call
      BY DEF Types
    <3> QED BY <1>5, <3>1, Passes DEF Call, Waiting
  <2> QED BY <2>1, <2>2, <2>3, WaitingStays DEF Bounded
<1>6. ASSUME NEW t \in Threads, Wake(t) PROVE Bounded'
  <2>1. limiter'.remaining = AfterSleep.remaining - 1 /\ UNCHANGED started
    <3>1. ~TakeToken(t)
      BY <1>6 DEF Wake, TakeToken, At
    <3> QED BY <1>6, <3>1, Passes
  <2>2. t \in Waiting /\ Waiting' \subseteq Waiting \ {t}
    <3>1. call[t] \in Call
      BY DEF Types
    <3>2. call'[t].pc = "headers" /\ \A d \in Threads \ {t} : call'[d] = call[d]
      BY <1>6, <3>1, Passes DEF Call
    <3> QED BY <1>6, <3>2 DEF Waiting, Wake, At
  <2>3. /\ Cardinality(Waiting) \in Nat /\ Cardinality(Waiting') \in Nat
        /\ Cardinality(Waiting') <= Cardinality(Waiting) - 1
    <3>1. Waiting \in SUBSET Threads /\ Waiting' \in SUBSET Threads /\ Waiting \ {t} \in SUBSET Threads
      BY DEF Waiting
    <3>2. Cardinality(Waiting \ {t}) = Cardinality(Waiting) - 1 /\ Cardinality(Waiting) \in Nat
      BY <2>2, <3>1, Finite
    <3>3. Cardinality(Waiting') <= Cardinality(Waiting \ {t}) /\ Cardinality(Waiting') \in Nat
      BY <2>2, <3>1, Finite
    <3> QED BY <3>2, <3>3
  <2>4. started \in Nat
    BY DEF Types
  <2>5. CASE limiter.reset = None
    <3>1. limiter'.remaining = limiter.remaining - 1 /\ limiter.remaining \in Int
      BY <2>1, <2>5, Resets
    <3>2. CASE limiter.remaining > 0
      BY <2>1, <2>3, <2>4, <3>1, <3>2 DEF Bounded
    <3>3. CASE limiter.remaining <= 0
      <4>1. limiter.remaining + started >= Cardinality(Waiting)
        BY <2>3, <2>4, <3>1, <3>3 DEF Bounded
      <4> QED BY <2>1, <2>3, <2>4, <3>1, <3>3, <4>1 DEF Bounded
    <3> QED BY <3>1, <3>2, <3>3
  <2>6. CASE limiter.reset # None
    BY <2>1, <2>3, <2>4, <2>6, Resets DEF Bounded
  <2> QED BY <2>5, <2>6
<1>7. ASSUME NEW t \in Threads, GoToSleep(t) PROVE Bounded'
  <2>1. Waiting' \subseteq Waiting /\ limiter'.remaining = limiter.remaining /\ UNCHANGED started
    BY <1>7, Sleeps DEF Waiting, At
  <2> QED BY <2>1, BoundedStays
<1>8. ASSUME NEW t \in Threads, Serve(t) PROVE Bounded'
  <2>1. Waiting' \subseteq Waiting /\ UNCHANGED <<limiter, started>>
    BY <1>8, Serves DEF Waiting, At
  <2> QED BY <2>1, BoundedStays
<1>9. ASSUME NEW t \in Threads, UpdateFromHeaders(t) PROVE Bounded'
  <2>1. Waiting' \subseteq Waiting /\ UNCHANGED started
    BY <1>9, Hears, IdleType DEF Waiting
  <2>2. CASE UNCHANGED limiter
    BY <2>1, <2>2, BoundedStays
  <2>3. CASE limiter'.remaining \in 0 .. Limit
    BY <2>1, <2>3, WaitingStays DEF Bounded
  <2> QED BY <1>9, <2>2, <2>3, Hears
<1> QED BY <1>1, <1>2, <1>3, <1>4, <1>5, <1>6, <1>7, <1>8, <1>9, Steps

LEMMA ClientTypes == ClientInit => TypeInv
<1> SUFFICES ASSUME ClientInit PROVE TypeInv
  OBVIOUS
<1>0. None \notin Threads
  BY ThreadsAssumption DEF None
<1>1. Types
  <2>1. limiter \in Limiter /\ server \in [used : 0 .. Limit, window : 1 .. Window]
    BY DEF ClientInit, Limiter
  <2>2. settings \in [token : Token, refresh : {"none", "valid", "rotated"}]
    BY DEF ClientInit, Token
  <2>3. call \in [Threads -> Call] /\ started \in 0 .. MaxCalls /\ excuses \subseteq Excuses
    BY IdleType DEF ClientInit, Excuses
  <2> QED BY <2>1, <2>2, <2>3 DEF Types
<1>2. Waiting = {}
  BY IdleType DEF ClientInit, Waiting
<1>3. Locked /\ Bounded
  BY <1>0, <1>2, IdleType, FS_EmptySet DEF ClientInit, Locked, Bounded, At
<1> QED BY <1>1, <1>3 DEF TypeInv

LEMMA TypeStep == TypeInv /\ [ClientNext]_clientVars => TypeInv'
  BY TypesStep, LockedStep, BoundedStep DEF TypeInv

\* Every variable keeps its type: one thread at most sleeps, with the lock, and
\* the count falls below zero by no more than the operations there are.
THEOREM ClientTypesSound == ClientSpec => []ClientTypeOK
<1>1. ClientSpec => []TypeInv
  BY ClientTypes, TypeStep, PTL DEF ClientSpec
<1>2. TypeInv => ClientTypeOK
  <2> SUFFICES ASSUME TypeInv PROVE ClientTypeOK
    OBVIOUS
  <2>1. limiter.remaining \in -MaxCalls .. DefaultCalls + Limit
    <3>1. Cardinality(Waiting) \in Nat
      BY Finite DEF Waiting
    <3>2. limiter.remaining \in Int /\ started \in 0 .. MaxCalls
      BY DEF TypeInv, Types, Limiter
    <3> QED BY <3>1, <3>2 DEF TypeInv, Bounded
  <2>2. /\ limiter.max \in {DefaultCalls, Limit} /\ limiter.reset \in {None} \cup 0 .. Window
        /\ limiter.lock \in {t \in Threads : call[t].pc = "sleep"} \cup {None}
    BY DEF TypeInv, Types, Limiter, Locked, At
  <2>3. ASSUME NEW t \in Threads
        PROVE  /\ call[t].pc \in PCs /\ call[t].token \in Token
               /\ call[t].pc = "sleep" => limiter.lock = t
               /\ call[t].sleep \in 0 .. Window + 1
               /\ call[t].reply.remaining \in {None} \cup 0 .. Limit
               /\ call[t].reply.reset \in {None} \cup 0 .. Window
    <3>1. call[t] \in Call
      BY DEF TypeInv, Types
    <3>2. call[t].reply \in Headers
      BY <3>1 DEF Call
    <3>3. /\ call[t].reply.remaining \in {None} \cup 0 .. Limit
          /\ call[t].reply.reset \in {None} \cup 0 .. Window
      BY <3>2 DEF Headers, NoHeaders
    <3> QED BY <3>1, <3>3 DEF Call, TypeInv, Locked, At
  <2> QED BY <2>1, <2>2, <2>3 DEF ClientTypeOK, TypeInv, Types, Excuses
<1> QED BY <1>1, <1>2, PTL

-----------------------------------------------------------------------------
(* The quota *)

\* Calls the limiter has let through and LinkedIn has not counted yet.
Sending == {t \in Threads : call[t].pc \in {"headers", "send"}}

Pos(n) == IF n > 0 THEN n ELSE 0

\* While nothing has made the limiter lose track, what it would still let through
\* and what is on its way fit in what is left of LinkedIn's window.
Tracked == excuses = {} => Pos(limiter.remaining) + Cardinality(Sending) <= Limit - server.used

QuotaInv == Types /\ RefusalExplained /\ Tracked

LEMMA Counts ==
  ASSUME Types
  PROVE  /\ limiter.remaining \in Int /\ server.used \in 0 .. Limit
         /\ Pos(limiter.remaining) \in Nat
         /\ Cardinality(Sending) \in Nat
         /\ \A S \in SUBSET Threads : S \subseteq Sending => Cardinality(S) \in Nat /\ Cardinality(S) <= Cardinality(Sending)
<1>1. limiter.remaining \in Int /\ server.used \in 0 .. Limit
  BY DEF Types, Limiter
<1>2. Sending \in SUBSET Threads
  BY DEF Sending
<1> QED BY <1>1, <1>2, Finite DEF Pos

\* Nothing new is sent, and LinkedIn does not count more.
LEMMA TrackedStays ==
  ASSUME QuotaInv, limiter'.remaining = limiter.remaining, server'.used \in 0 .. Limit,
         server'.used <= server.used, UNCHANGED excuses, Sending' \subseteq Sending
  PROVE  RefusalExplained' /\ Tracked'
<1>1. Cardinality(Sending') \in Nat /\ Cardinality(Sending') <= Cardinality(Sending)
  <2>1. Sending' \in SUBSET Threads
    BY DEF Sending
  <2> QED BY <2>1, Counts DEF QuotaInv
<1> QED BY <1>1, Counts DEF QuotaInv, RefusalExplained, Tracked

\* The limiter starts again from n and lets t through.
LEMMA TrackedAgain ==
  ASSUME QuotaInv, NEW t \in Threads, NEW n \in Nat, ~Misses(t, n), UNCHANGED server,
         Sending' \subseteq {t},
         \/ limiter'.remaining = n /\ Sending' = {}
         \/ limiter'.remaining = n - 1 /\ n > 0
  PROVE  Tracked'
<1>1. n <= Limit - server.used /\ server.used \in 0 .. Limit
  BY Counts DEF Misses, QuotaInv
<1>2. Cardinality(Sending') \in 0 .. 1 /\ (Sending' = {} => Cardinality(Sending') = 0)
  <2>1. Cardinality({t}) = 1 /\ Cardinality({}) = 0
    BY FS_Singleton, FS_EmptySet
  <2>2. Sending' = {} \/ Sending' = {t}
    OBVIOUS
  <2> QED BY <2>1, <2>2
<1> QED BY <1>1, <1>2 DEF Tracked, Pos

LEMMA QuotaStep == ASSUME QuotaInv, [ClientNext]_clientVars PROVE QuotaInv'
<1>0. Types /\ Types' /\ server.used \in 0 .. Limit /\ limiter.remaining \in Int
  BY TypesStep, Counts DEF QuotaInv
<1> SUFFICES RefusalExplained' /\ Tracked'
  BY <1>0 DEF QuotaInv
<1>1. CASE UNCHANGED clientVars
  BY <1>0, <1>1, TrackedStays DEF clientVars, Sending
<1>2. CASE Tick
  <2>1. /\ Sending' \subseteq Sending /\ limiter'.remaining = limiter.remaining
        /\ server'.used <= server.used /\ UNCHANGED excuses
    BY <1>0, <1>2, Ages DEF Sending
  <2> QED BY <1>0, <2>1, Counts, TrackedStays DEF Types
<1>3. ASSUME NEW t \in Threads, NEW p \in {"register", "queue", "delete"}, Begin(t, p)
      PROVE  RefusalExplained' /\ Tracked'
  <2>1. Sending' \subseteq Sending /\ UNCHANGED <<limiter, server, excuses>>
    BY <1>0, <1>3, Begins DEF Sending
  <2> QED BY <1>0, <2>1, TrackedStays
<1>4. ASSUME NEW t \in Threads, Plain(t) PROVE RefusalExplained' /\ Tracked'
  <2>1. Sending' \subseteq Sending /\ UNCHANGED <<limiter, server, excuses>>
    BY <1>0, <1>4, Plainly DEF Sending
  <2> QED BY <1>0, <2>1, TrackedStays
<1>5. ASSUME NEW t \in Threads, TakeToken(t) \/ Wake(t)
      PROVE  /\ t \notin Sending /\ Sending' \subseteq Sending \cup {t} /\ UNCHANGED server
             /\ Sending \subseteq InFlight(t)
             /\ limiter'.remaining = (IF TakeToken(t) THEN Current.remaining ELSE AfterSleep.remaining) - 1
  <2>1. /\ call[t].pc \in {"queue", "sleep"} /\ \A d \in Threads \ {t} : call'[d] = call[d]
    BY <1>0, <1>5, Passes
  <2> QED BY <1>0, <1>5, <2>1, Passes DEF Sending, InFlight
<1>6. ASSUME NEW t \in Threads, TakeToken(t) PROVE RefusalExplained' /\ Tracked'
  <2>1. /\ Current.remaining > 0 /\ excuses' = Excuse(Due /\ Misses(t, limiter.max), "overlap")
        /\ limiter'.remaining = Current.remaining - 1
    BY <1>5, <1>6 DEF TakeToken
  <2>2. RefusalExplained'
    BY <2>1 DEF QuotaInv, RefusalExplained, Excuse
  <2>3. CASE ~Due
    <3>1. limiter'.remaining = limiter.remaining - 1 /\ limiter.remaining > 0
      BY <1>0, <2>1, <2>3, Resets
    <3>2. Cardinality(Sending') \in Nat /\ Cardinality(Sending') <= Cardinality(Sending) + 1
      <4>1. Sending \in SUBSET Threads /\ Sending' \in SUBSET Threads /\ Sending \cup {t} \in SUBSET Threads
        BY DEF Sending
      <4>2. Cardinality(Sending') \in Nat /\ Cardinality(Sending') <= Cardinality(Sending \cup {t})
            /\ Cardinality(Sending \cup {t}) \in Nat
        BY <1>5, <1>6, <4>1, Finite
      <4> QED BY <1>0, <4>1, <4>2, Counts, Finite
    <3>3. excuses' = excuses /\ UNCHANGED server
      BY <1>5, <1>6, <2>1, <2>3 DEF Excuse
    <3> QED BY <1>0, <2>2, <3>1, <3>2, <3>3, Counts DEF QuotaInv, Tracked, Pos
  <2>4. CASE Due /\ excuses' = {}
    <3>1. ~Misses(t, limiter.max)
      BY <2>1, <2>4 DEF Excuse
    <3>2. Sending' \subseteq {t}
      BY <1>5, <1>6, <3>1 DEF Misses
    <3>3. limiter'.remaining = limiter.max - 1 /\ limiter.max > 0 /\ limiter.max \in Nat
      BY <1>0, <2>1, <2>4, Resets
    <3> QED BY <1>5, <1>6, <2>2, <3>1, <3>2, <3>3, TrackedAgain
  <2>5. CASE excuses' # {}
    BY <2>2, <2>5 DEF Tracked
  <2> QED BY <2>3, <2>4, <2>5
<1>7. ASSUME NEW t \in Threads, Wake(t) PROVE RefusalExplained' /\ Tracked'
  <2>1. /\ excuses' = IF limiter.reset = None THEN excuses \cup {"blind"}
                      ELSE Excuse(Misses(t, limiter.max), "overlap")
        /\ limiter'.remaining = AfterSleep.remaining - 1
    <3>1. ~TakeToken(t)
      BY <1>7 DEF Wake, TakeToken, At
    <3> QED BY <1>5, <1>7, <3>1 DEF Wake
  <2>2. RefusalExplained'
    BY <2>1 DEF QuotaInv, RefusalExplained, Excuse
  <2>3. CASE excuses' = {}
    <3>1. limiter.reset # None /\ ~Misses(t, limiter.max)
      BY <2>1, <2>3 DEF Excuse
    <3>2. Sending' \subseteq {t}
      BY <1>5, <1>7, <3>1 DEF Misses
    <3>3. limiter'.remaining = limiter.max - 1 /\ limiter.max > 0 /\ limiter.max \in Nat
      BY <1>0, <2>1, <3>1, Resets
    <3> QED BY <1>5, <1>7, <2>2, <3>1, <3>2, <3>3, TrackedAgain
  <2> QED BY <2>2, <2>3 DEF Tracked
<1>8. ASSUME NEW t \in Threads, GoToSleep(t) PROVE RefusalExplained' /\ Tracked'
  <2>1. /\ Sending' \subseteq Sending /\ limiter'.remaining = limiter.remaining
        /\ UNCHANGED <<server, excuses>>
    BY <1>0, <1>8, Sleeps DEF Sending
  <2> QED BY <1>0, <2>1, TrackedStays
<1>9. ASSUME NEW t \in Threads, Serve(t) PROVE RefusalExplained' /\ Tracked'
  <2>1. t \in Sending /\ Sending' \subseteq Sending \ {t} /\ UNCHANGED limiter
    BY <1>0, <1>9, Serves DEF Sending, At
  <2>2. /\ Cardinality(Sending) \in Nat /\ Cardinality(Sending') \in Nat
        /\ Cardinality(Sending') <= Cardinality(Sending) - 1
    <3>1. Sending \in SUBSET Threads /\ Sending' \in SUBSET Threads /\ Sending \ {t} \in SUBSET Threads
      BY DEF Sending
    <3>2. Cardinality(Sending \ {t}) = Cardinality(Sending) - 1 /\ Cardinality(Sending) \in Nat
      BY <2>1, <3>1, Finite
    <3>3. Cardinality(Sending') <= Cardinality(Sending \ {t}) /\ Cardinality(Sending') \in Nat
      BY <2>1, <3>1, Finite
    <3> QED BY <3>2, <3>3
  <2>3. /\ server'.used = IF server.used < Limit THEN server.used + 1 ELSE Limit
        /\ excuses' = Excuse(server.used = Limit /\ excuses = {}, "unexplained")
    BY <1>0, <1>9, Serves
  <2>4. excuses = {} => server.used < Limit
    BY <1>0, <2>2, Counts DEF QuotaInv, Tracked
  <2>5. excuses' = excuses
    BY <1>0, <2>3, <2>4 DEF Excuse
  <2> QED BY <1>0, <2>1, <2>2, <2>3, <2>4, <2>5, Counts DEF QuotaInv, RefusalExplained, Tracked
<1>10. ASSUME NEW t \in Threads, UpdateFromHeaders(t) PROVE RefusalExplained' /\ Tracked'
  <2>1. /\ Sending' \subseteq Sending /\ Sending \subseteq InFlight(t) /\ UNCHANGED server
    BY <1>0, <1>10, Hears, IdleType DEF Sending, InFlight, At
  <2>2. CASE UNCHANGED <<limiter, excuses>>
    BY <1>0, <2>1, <2>2, TrackedStays
  <2>3. CASE ~UNCHANGED <<limiter, excuses>>
    <3>1. /\ limiter'.remaining \in 0 .. Limit
          /\ excuses' = (excuses \cap {"unexplained"})
                          \cup (IF Misses(t, limiter'.remaining) THEN {"overlap"} ELSE {})
      BY <1>0, <1>10, <2>3, Hears
    <3>2. RefusalExplained'
      BY <3>1 DEF QuotaInv, RefusalExplained
    <3>3. CASE excuses' = {}
      <4>1. ~Misses(t, limiter'.remaining)
        BY <3>1, <3>3
      <4>2. Sending' = {}
        BY <2>1, <4>1 DEF Misses
      <4>3. PICK n \in Nat : n = limiter'.remaining
        BY <3>1
      <4> QED BY <2>1, <3>2, <4>1, <4>2, <4>3, TrackedAgain
    <3> QED BY <3>2, <3>3 DEF Tracked
  <2> QED BY <2>2, <2>3
<1> QED BY <1>1, <1>2, <1>3, <1>4, <1>6, <1>7, <1>8, <1>9, <1>10, Steps

\* LinkedIn refuses a post for its quota only while the limiter could not know
\* better. What it counts down is never more than LinkedIn has left for it, from
\* the headers that put it right until something makes it lose track again.
THEOREM RefusalSound == ClientSpec => []RefusalExplained
<1>1. ClientInit => QuotaInv
  BY ClientTypes DEF ClientInit, TypeInv, QuotaInv, RefusalExplained, Tracked
<1>2. QuotaInv /\ [ClientNext]_clientVars => QuotaInv'
  BY QuotaStep
<1>3. QuotaInv => RefusalExplained
  BY DEF QuotaInv
<1> QED BY <1>1, <1>2, <1>3, PTL DEF ClientSpec

-----------------------------------------------------------------------------
(* The tokens *)

\* What the configuration says of a token's end is not later than its end.
Honest(token) == token.expiry # None => token.expiry <= token.life

TokenInv ==
    /\ Types
    /\ Honest(settings.token)
    /\ \A t \in Threads :
         /\ Honest(call[t].token)
         /\ ~At(t, "idle") /\ settings.token.expiry # None => call[t].token.expiry # None
    /\ BearerValid

LEMMA HonestAges ==
  ASSUME NEW k \in Token
  PROVE  /\ Honest(k) => Honest(OlderToken(k))
         /\ OlderToken(k).expiry = None <=> k.expiry = None
<1>1. k.life \in Nat /\ k.expiry \in {None} \cup Nat /\ None \notin Nat
  BY DEF Token, None
<1> QED BY <1>1, LessType, OlderType DEF Honest

\* A step of t that leaves the settings' token: the others keep theirs.
LEMMA TokenStays ==
  ASSUME TokenInv, Types', NEW t \in Threads,
         settings'.token = settings.token,
         settings'.refresh = "none" <=> settings.refresh = "none",
         \A d \in Threads \ {t} : call'[d] = call[d],
         Honest(call'[t].token),
         call'[t].pc # "idle" /\ settings.token.expiry # None => call'[t].token.expiry # None,
         call'[t].pc = "send" /\ settings.token.expiry # None /\ settings.refresh # "none"
            => call'[t].token.life > 0
  PROVE  TokenInv'
<1>1. ASSUME NEW d \in Threads
      PROVE  /\ Honest(call'[d].token)
             /\ call'[d].pc # "idle" /\ settings'.token.expiry # None => call'[d].token.expiry # None
             /\ call'[d].pc = "send" /\ settings'.token.expiry # None /\ settings'.refresh # "none"
                  => call'[d].token.life > 0
  <2>1. CASE d = t
    BY <2>1
  <2>2. CASE d # t
    BY <2>2 DEF TokenInv, At, BearerValid
  <2> QED BY <2>1, <2>2
<1>2. Honest(settings'.token)
  BY DEF TokenInv
<1> QED BY <1>1, <1>2 DEF TokenInv, At, BearerValid, Honest

\* The bearer of a request that reaches LinkedIn is still valid.
LEMMA BearerGood ==
  ASSUME TokenInv, NEW t \in Threads, NEW p \in PCs, WithBearer(t, p), ~At(t, "idle")
  PROVE  /\ Honest(call'[t].token)
         /\ settings.token.expiry # None => call'[t].token.expiry # None
         /\ settings.token.expiry # None /\ settings.refresh # "none" => call'[t].token.life > 0
<1>1. call[t].token \in Token /\ Life \in 0 .. Life /\ Life \notin {None} /\ Types
  BY DEF TokenInv, Types, Call, None
<1>2. IF NeedsRefresh(t) THEN /\ call'[t].token.life = Life
                              /\ call'[t].token.expiry \in {Life, call[t].token.expiry}
      ELSE call'[t].token = call[t].token
  BY <1>1, Bearer
<1>3. Honest(call[t].token) /\ (settings.token.expiry # None => call[t].token.expiry # None)
  BY DEF TokenInv
<1>4. CASE NeedsRefresh(t)
  BY <1>1, <1>2, <1>3, <1>4 DEF Honest, Token
<1>5. CASE ~NeedsRefresh(t)
  <2>1. settings.token.expiry # None /\ settings.refresh # "none" => call[t].token.expiry > Margin
    BY <1>1, <1>3, <1>5 DEF NeedsRefresh, IsTokenExpired, Token
  <2> QED BY <1>1, <1>2, <1>3, <1>5, <2>1 DEF Honest, Token
<1> QED BY <1>4, <1>5

LEMMA TokenStep == ASSUME TokenInv, [ClientNext]_clientVars PROVE TokenInv'
<1>0. Types /\ Types'
  BY TypesStep DEF TokenInv
<1>1. CASE UNCHANGED clientVars
  BY <1>0, <1>1 DEF clientVars, TokenInv, At, BearerValid, Honest
<1>2. CASE Tick
  <2>1. /\ settings.token \in Token /\ \A t \in Threads : call[t].token \in Token
    BY <1>0 DEF Types, Call
  <2>2. /\ settings'.token = OlderToken(settings.token)
        /\ \A t \in Threads : /\ call'[t].pc = call[t].pc /\ ~At(t, "send")
                              /\ call'[t].token = OlderToken(call[t].token)
    BY <1>0, <1>2, Ages
  <2>3. Honest(settings'.token) /\ (settings'.token.expiry = None <=> settings.token.expiry = None)
    BY <2>1, <2>2, HonestAges DEF TokenInv
  <2>4. ASSUME NEW t \in Threads
        PROVE  /\ Honest(call'[t].token) /\ call'[t].pc # "send"
               /\ call'[t].pc # "idle" /\ settings'.token.expiry # None => call'[t].token.expiry # None
    <3>1. /\ Honest(call'[t].token) /\ (call'[t].token.expiry = None <=> call[t].token.expiry = None)
      BY <2>1, <2>2, HonestAges DEF TokenInv
    <3> QED BY <2>2, <2>3, <3>1 DEF TokenInv, At
  <2> QED BY <1>0, <2>3, <2>4 DEF TokenInv, At, BearerValid, Honest
<1>3. ASSUME NEW t \in Threads, NEW p \in {"register", "queue", "delete"}, Begin(t, p) PROVE TokenInv'
  <2>1. /\ call'[t].pc = p /\ call'[t].token = settings.token /\ UNCHANGED settings
        /\ \A d \in Threads \ {t} : call'[d] = call[d]
    BY <1>0, <1>3, Begins
  <2>2. Honest(call'[t].token)
    BY <2>1 DEF TokenInv
  <2> QED BY <1>0, <2>1, <2>2, TokenStays
<1>4. ASSUME NEW t \in Threads, Plain(t) PROVE TokenInv'
  <2>1. /\ \A d \in Threads \ {t} : call'[d] = call[d]
        /\ call[t].pc # "idle" /\ call'[t].pc \in {"idle", "queue", "put", "send"}
        /\ call'[t].pc = "send" => WithBearer(t, "send")
        /\ \/ call'[t].pc = "idle"
           \/ call'[t].token = call[t].token /\ UNCHANGED settings
           \/ WithBearer(t, call'[t].pc)
        /\ settings'.token = settings.token /\ (settings'.refresh = "none" <=> settings.refresh = "none")
    BY <1>0, <1>4, Plainly
  <2>2. PICK p \in PCs : p = call'[t].pc
    BY <2>1 DEF PCs
  <2>3. CASE WithBearer(t, p)
    BY <1>0, <2>1, <2>2, <2>3, BearerGood, TokenStays DEF At
  <2>4. CASE ~WithBearer(t, p) /\ p # "idle"
    BY <1>0, <2>1, <2>2, <2>4, TokenStays DEF TokenInv, At
  <2>5. CASE ~WithBearer(t, p) /\ p = "idle"
    <3>1. \/ Ends(t) \/ Goto(t, "queue")
          \/ \E q \in {"put", "queue", "idle", "send"} : WithBearer(t, q)
      BY <1>4 DEF Plain, RegisterUpload, PutImage, ImageFails, DeletePost, RequestFails, SendPost, PostFails
    <3>2. ASSUME NEW q \in {"put", "queue", "idle", "send"}, WithBearer(t, q) PROVE q = p
      BY <1>0, <2>2, <3>2, Bearer DEF PCs
    <3>3. ~Goto(t, "queue")
      BY <1>0, <2>2, <2>5, Moves DEF PCs
    <3>4. Ends(t)
      BY <2>5, <3>1, <3>2, <3>3
    <3>5. Honest(call'[t].token)
      BY <1>0, <3>4, Stops DEF IdleCall, NoToken, Honest
    <3> QED BY <1>0, <2>1, <2>2, <2>5, <3>5, TokenStays
  <2> QED BY <2>3, <2>4, <2>5
<1>5. ASSUME NEW t \in Threads, TakeToken(t) \/ Wake(t) PROVE TokenInv'
  <2>1. /\ call'[t].pc = "headers" /\ call'[t].token = call[t].token /\ UNCHANGED settings
        /\ call[t].pc # "idle" /\ \A d \in Threads \ {t} : call'[d] = call[d]
    BY <1>0, <1>5, Moves, Passes DEF TakeToken, Wake, PCs
  <2> QED BY <1>0, <2>1, TokenStays DEF TokenInv, At
<1>6. ASSUME NEW t \in Threads, GoToSleep(t) PROVE TokenInv'
  <2>1. /\ call'[t].pc = "sleep" /\ call'[t].token = call[t].token /\ UNCHANGED settings
        /\ call[t].pc # "idle" /\ \A d \in Threads \ {t} : call'[d] = call[d]
    BY <1>0, <1>6, Sleeps DEF At
  <2> QED BY <1>0, <2>1, TokenStays DEF TokenInv, At
<1>7. ASSUME NEW t \in Threads, Serve(t) PROVE TokenInv'
  <2>1. /\ call'[t].pc = "reply" /\ call'[t].token = call[t].token /\ UNCHANGED settings
        /\ call[t].pc # "idle" /\ \A d \in Threads \ {t} : call'[d] = call[d]
    BY <1>0, <1>7, Serves DEF At
  <2> QED BY <1>0, <2>1, TokenStays DEF TokenInv, At
<1>8. ASSUME NEW t \in Threads, UpdateFromHeaders(t) PROVE TokenInv'
  <2>1. /\ call'[t] = IdleCall /\ UNCHANGED settings /\ \A d \in Threads \ {t} : call'[d] = call[d]
    BY <1>0, <1>8, Hears
  <2>2. call'[t].pc = "idle" /\ Honest(call'[t].token)
    BY <2>1 DEF IdleCall, NoToken, Honest
  <2> QED BY <1>0, <2>1, <2>2, TokenStays
<1> QED BY <1>1, <1>2, <1>3, <1>4, <1>5, <1>6, <1>7, <1>8, Steps

\* A post is sent with a token that is still valid, if the settings say when it
\* expires and have a refresh token, however long the thread waited for the quota.
THEOREM BearerSound == ClientSpec => []BearerValid
<1>1. ClientInit => TokenInv
  <2> SUFFICES ASSUME ClientInit PROVE TokenInv
    OBVIOUS
  <2>1. Types
    BY ClientTypes DEF TypeInv
  <2>2. Honest(settings.token) /\ \A t \in Threads : call[t].pc = "idle" /\ Honest(call[t].token)
    BY DEF ClientInit, Honest, IdleCall, NoToken
  <2> QED BY <2>1, <2>2 DEF TokenInv, At, BearerValid
<1>2. TokenInv /\ [ClientNext]_clientVars => TokenInv'
  BY TokenStep
<1>3. TokenInv => BearerValid
  BY DEF TokenInv
<1> QED BY <1>1, <1>2, <1>3, PTL DEF ClientSpec

=============================================================================
