---------------------------- MODULE LinkedInClient ----------------------------
(***************************************************************************)
(* Worker threads calling LinkedIn: the process-wide RateLimiter of        *)
(* publish_node with its lock, its sleeps and the headers it learns from,  *)
(* and the LinkedInAuth that every call builds from the settings.          *)
(*                                                                         *)
(* Times are relative: what is left until an instant, counted down by      *)
(* Tick.  A behaviour begins with a new process, anywhere in LinkedIn's    *)
(* window and in the life of the configured token.                         *)
(***************************************************************************)
EXTENDS Integers, FiniteSets

CONSTANTS
    Threads,       \* worker threads that call LinkedIn
    DefaultCalls,  \* max_calls_per_day of the constructor
    Limit,         \* the quota LinkedIn enforces in a window
    Window,        \* its length
    Life,          \* of a new access token
    Margin,        \* REFRESH_BEFORE_DAYS
    MaxCalls       \* bound: operations started

ASSUME ThreadsAssumption == IsFiniteSet(Threads) /\ -1 \notin Threads
ASSUME QuotaAssumption == DefaultCalls \in Nat \ {0} /\ Limit \in Nat \ {0} /\ Window \in Nat \ {0}
ASSUME TokenAssumption == Life \in Nat \ {0} /\ Margin \in 1 .. Life
ASSUME CallsAssumption == MaxCalls \in Nat

VARIABLES
    limiter,   \* _RATE_LIMITER
    server,    \* LinkedIn's own count of posts created in the window
    settings,  \* the token settings, and what LinkedIn thinks of them
    call,      \* the threads
    started,   \* operations started
    excuses    \* history: how the limiter lost track of LinkedIn's count; and
               \* "unexplained" when LinkedIn answers 429 although it had not

clientVars == <<limiter, server, settings, call, started, excuses>>

None == -1
NoHeaders == [remaining |-> None, reset |-> None]

\* life: of the access token; expiry: what _token_expires_at says of it; own:
\* the object holds a refresh token that replaced the one of the settings.
Token == [life : 0 .. Life, expiry : {None} \cup 0 .. Life, own : BOOLEAN]
NoToken == [life |-> 0, expiry |-> None, own |-> FALSE]
PCs == {"idle", "register", "put", "delete", "queue", "sleep", "headers", "send", "reply"}
IdleCall == [pc |-> "idle", token |-> NoToken, sleep |-> 0,
             reply |-> NoHeaders]

ClientTypeOK ==
    /\ limiter.remaining \in -MaxCalls .. DefaultCalls + Limit
    /\ limiter.max \in {DefaultCalls, Limit}
    /\ limiter.reset \in {None} \cup 0 .. Window
    /\ limiter.lock \in {t \in Threads : call[t].pc = "sleep"} \cup {None}
    /\ server.used \in 0 .. Limit /\ server.window \in 1 .. Window
    /\ settings.token \in Token /\ settings.refresh \in {"none", "valid", "rotated"}
    /\ \A t \in Threads :
         /\ call[t].pc \in PCs /\ call[t].token \in Token
         /\ call[t].pc = "sleep" => limiter.lock = t
         /\ call[t].sleep \in 0 .. Window + 1
         /\ call[t].reply.remaining \in {None} \cup 0 .. Limit
         /\ call[t].reply.reset \in {None} \cup 0 .. Window
    /\ started \in 0 .. MaxCalls
    /\ excuses \subseteq {"unheard", "overlap", "blind", "unexplained"}

ClientInit ==
    /\ limiter = [remaining |-> DefaultCalls, max |-> DefaultCalls, reset |-> None, lock |-> None]
    /\ server \in [used : 0 .. Limit, window : {Window}]
    /\ \E life \in 0 .. Life, known \in BOOLEAN, refresh \in {"none", "valid"} :
         settings = [token |-> [life |-> life, expiry |-> IF known THEN life ELSE None,
                                 own |-> FALSE],
                     refresh |-> refresh]
    /\ call = [t \in Threads |-> IdleCall]
    /\ started = 0
    /\ excuses = {"unheard"}

-----------------------------------------------------------------------------
At(t, pc) == call[t].pc = pc
Goto(t, pc) == call' = [call EXCEPT ![t].pc = pc]
Ends(t) == call' = [call EXCEPT ![t] = IdleCall]

\* Calls that have taken a token from the limiter and not yet told it the reply.
InFlight(t) == {d \in Threads \ {t} : call[d].pc \in {"headers", "send", "reply"}}

Excuse(cond, why) == IF cond THEN excuses \cup {why} ELSE excuses

\* Counting from n, the limiter misses a call that is in flight or was served.
Misses(t, n) == InFlight(t) # {} \/ n > Limit - server.used

(* LinkedInAuth *)

\* publish_node and delete_from_linkedin build the auth with from_settings.
Begin(t, pc) ==
    /\ At(t, "idle") /\ started < MaxCalls
    /\ call' = [call EXCEPT ![t] = [IdleCall EXCEPT !.pc = pc, !.token = settings.token]]
    /\ started' = started + 1
    /\ UNCHANGED <<limiter, server, settings, excuses>>

IsTokenExpired(token) == token.expiry # None /\ token.expiry <= Margin

NeedsRefresh(t) == IsTokenExpired(call[t].token) /\ settings.refresh # "none"

\* do_refresh: a new token for this LinkedInAuth only; LinkedIn may answer
\* without expires_in, and may rotate the refresh token, which nobody stores.
Refreshed(t, next) ==
    LET token == call[t].token
    IN  /\ settings.refresh = "valid" \/ token.own
        /\ \E expiry \in {Life, token.expiry}, rotates \in BOOLEAN :
             /\ call' = [call EXCEPT ![t].pc = next,
                  ![t].token = [life |-> Life, expiry |-> expiry, own |-> token.own \/ rotates]]
             /\ settings' = IF rotates THEN [settings EXCEPT !.refresh = "rotated"] ELSE settings

\* get_access_token, for the request that leads to next.
WithBearer(t, next) ==
    /\ IF NeedsRefresh(t) THEN Refreshed(t, next)
       ELSE Goto(t, next) /\ UNCHANGED settings
    /\ UNCHANGED <<limiter, server, started, excuses>>

\* upload_image in the same client: register, then PUT.
RegisterUpload(t) == At(t, "register") /\ WithBearer(t, "put")
PutImage(t) == At(t, "put") /\ WithBearer(t, "queue")

\* Whatever fails there is a warning: the post goes out without its image.
ImageFails(t) ==
    /\ call[t].pc \in {"register", "put"}
    /\ Goto(t, "queue")
    /\ UNCHANGED <<limiter, server, settings, started, excuses>>

DeletePost(t) == At(t, "delete") /\ WithBearer(t, "idle")

\* The refresh or the request of a delete fails, or the refresh before a post:
\* the exception ends the operation.
RequestFails(t) ==
    /\ call[t].pc \in {"delete", "headers"}
    /\ Ends(t)
    /\ UNCHANGED <<limiter, server, settings, started, excuses>>

(* RateLimiter *)

\* _maybe_reset
Due == limiter.reset = 0
Current == IF Due THEN [limiter EXCEPT !.remaining = limiter.max, !.reset = None] ELSE limiter

\* Mutant: no token is taken, the headers alone count.
MutTakeToken(t) ==
    /\ At(t, "queue") /\ limiter.lock = None /\ Current.remaining > 0
    /\ limiter' = Current
    /\ Goto(t, "headers")
    /\ excuses' = Excuse(Due /\ Misses(t, limiter.max), "overlap")
    /\ UNCHANGED <<server, settings, started>>

\* wait_if_needed: a token is left, and is taken.
TakeToken(t) ==
    /\ At(t, "queue") /\ limiter.lock = None /\ Current.remaining > 0
    /\ limiter' = [Current EXCEPT !.remaining = Current.remaining - 1]
    /\ Goto(t, "headers")
    /\ excuses' = Excuse(Due /\ Misses(t, limiter.max), "overlap")
    /\ UNCHANGED <<server, settings, started>>

\* wait_if_needed: none is left. The thread sleeps, and keeps the lock.
SleepFor == IF Current.reset = None THEN 1 ELSE Current.reset

GoToSleep(t) ==
    /\ At(t, "queue") /\ limiter.lock = None /\ Current.remaining <= 0
    /\ limiter' = [Current EXCEPT !.lock = t]
    /\ call' = [call EXCEPT ![t].pc = "sleep", ![t].sleep = SleepFor]
    /\ UNCHANGED <<server, settings, started, excuses>>

\* After the sleep: a known reset has come, or a minute has passed.
AfterSleep ==
    IF limiter.reset = None THEN limiter ELSE [limiter EXCEPT !.remaining = limiter.max, !.reset = None]

\* Mutant: the lock is not released after the sleep.
MutWake(t) ==
    /\ At(t, "sleep") /\ call[t].sleep = 0
    /\ limiter' = [AfterSleep EXCEPT !.remaining = AfterSleep.remaining - 1]
    /\ Goto(t, "headers")
    /\ UNCHANGED <<server, settings, started, excuses>>

\* Mutant: the thread sleeps until headers say that calls are left.
MutWakeLoops(t) ==
    /\ At(t, "sleep") /\ call[t].sleep = 0 /\ AfterSleep.remaining > 0
    /\ limiter' = [AfterSleep EXCEPT !.remaining = AfterSleep.remaining - 1, !.lock = None]
    /\ Goto(t, "headers")
    /\ UNCHANGED <<server, settings, started, excuses>>

Wake(t) ==
    /\ At(t, "sleep") /\ call[t].sleep = 0
    /\ limiter' = [AfterSleep EXCEPT !.remaining = AfterSleep.remaining - 1, !.lock = None]
    /\ Goto(t, "headers")
    /\ excuses' = IF limiter.reset = None THEN excuses \cup {"blind"}
                  ELSE Excuse(Misses(t, limiter.max), "overlap")
    /\ UNCHANGED <<server, settings, started>>

\* Mutant: the headers are built before the wait.
MutSendPost(t) ==
    /\ At(t, "headers")
    /\ Goto(t, "send")
    /\ UNCHANGED <<limiter, server, settings, started, excuses>>

\* _headers is called after the wait.
SendPost(t) == At(t, "headers") /\ WithBearer(t, "send")

\* LinkedIn creates the post, or answers 429; it may send the headers.
Serve(t) ==
    LET used == IF server.used < Limit THEN server.used + 1 ELSE Limit
    IN  /\ At(t, "send")
        /\ server' = [server EXCEPT !.used = used]
        /\ \E headers \in {NoHeaders, [remaining |-> Limit - used, reset |-> server.window]} :
             call' = [call EXCEPT ![t].pc = "reply", ![t].reply = headers]
        /\ excuses' = Excuse(server.used = Limit /\ excuses = {}, "unexplained")
        /\ UNCHANGED <<limiter, settings, started>>

\* The bearer is refused, or the request or the answer is lost.
PostFails(t) ==
    /\ call[t].pc \in {"send", "reply"}
    /\ Ends(t)
    /\ UNCHANGED <<limiter, server, settings, started, excuses>>

\* update_from_headers, before raise_for_status.
UpdateFromHeaders(t) ==
    LET reply == call[t].reply
    IN  /\ At(t, "reply") /\ limiter.lock = None
        /\ IF reply = NoHeaders THEN UNCHANGED <<limiter, excuses>>
           ELSE /\ limiter' = [limiter EXCEPT !.remaining = reply.remaining, !.max = Limit,
                                              !.reset = reply.reset]
                /\ excuses' = (excuses \cap {"unexplained"})
                                \cup (IF Misses(t, reply.remaining) THEN {"overlap"} ELSE {})
        /\ Ends(t)
        /\ UNCHANGED <<server, settings, started>>

-----------------------------------------------------------------------------
Less(n) == IF n > 0 THEN n - 1 ELSE n

OlderToken(token) ==
    [token EXCEPT !.life = Less(token.life), !.expiry = Less(token.expiry)]

\* A request takes less than a unit of time, and a thread that may wake does.
Tick ==
    /\ \A t \in Threads : ~At(t, "send") /\ (At(t, "sleep") => call[t].sleep > 0)
    /\ limiter' = [limiter EXCEPT !.reset = Less(limiter.reset)]
    /\ server' = IF server.window = 1 THEN [used |-> 0, window |-> Window]
                 ELSE [server EXCEPT !.window = server.window - 1]
    /\ settings' = [settings EXCEPT !.token = OlderToken(settings.token)]
    /\ call' = [t \in Threads |->
         [call[t] EXCEPT !.sleep = Less(call[t].sleep), !.token = OlderToken(call[t].token),
                         !.reply = [call[t].reply EXCEPT !.reset = Less(call[t].reply.reset)]]]
    /\ UNCHANGED <<started, excuses>>

ThreadStep(t) ==
    \/ RegisterUpload(t) \/ PutImage(t) \/ ImageFails(t) \/ DeletePost(t) \/ RequestFails(t)
    \/ TakeToken(t) \/ GoToSleep(t) \/ Wake(t) \/ SendPost(t) \/ Serve(t) \/ PostFails(t)
    \/ UpdateFromHeaders(t)

ClientNext ==
    \/ \E t \in Threads :
         \/ \E pc \in {"register", "queue", "delete"} : Begin(t, pc)
         \/ ThreadStep(t)
    \/ Tick

ClientFairness == WF_clientVars(Tick) /\ \A t \in Threads : WF_clientVars(ThreadStep(t))
ClientSpec == ClientInit /\ [][ClientNext]_clientVars /\ ClientFairness

-----------------------------------------------------------------------------
(* Properties *)

\* LinkedIn refuses a post for its quota only while the limiter could not know
\* better: it has read no headers yet, it let a call pass after the minute it
\* waits without a reset time, or it took its count from headers or a reset while
\* another call was in flight or already counted. Fresh headers put it right.
RefusalExplained == "unexplained" \notin excuses

\* A post is sent with a token that is still valid, if the settings say when it
\* expires and have a refresh token: the wait for the quota comes first.
BearerValid ==
    \A t \in Threads :
        At(t, "send") /\ settings.token.expiry # None /\ settings.refresh # "none"
            => call[t].token.life > 0

\* A thread that waits for the quota or for another thread's sleep returns.
CallReturns == \A t \in Threads : ~At(t, "idle") ~> At(t, "idle")

=============================================================================
