------------------------------ MODULE Issuers ------------------------------
(***************************************************************************)
(* Bearer tokens at the relay: the JWKS cache of src/auth/issuers.rs, the  *)
(* verification of src/auth/jwt.rs, and what survives of the cache on disk.*)
(*                                                                         *)
(* Requests are tasks of a multi-threaded runtime.  A request reads the    *)
(* clock, finds the cached keys due or not, awaits the issuer without a    *)
(* lock, then writes the file, inserts into the cache and reads the cache  *)
(* again, each under its own lock: requests that refresh at the same time  *)
(* overtake each other at every one of these steps.                        *)
(*                                                                         *)
(* One issuer serves all configured names; it publishes the key sets of    *)
(* Published one after the other.  Time is counted in units that make      *)
(* Retry (30 s), Refresh (10 min) and MaxStale (24 h) small numbers in     *)
(* this order.                                                             *)
(***************************************************************************)
EXTENDS Naturals, Sequences

CONSTANTS
    Reqs,        \* tasks that may serve a request at the same time
    Order,       \* the configured names, in the order of the map
    Accepts,     \* Accepts[n]: the audiences of name n (audience, login client)
    Published,   \* the issuer's key sets, each a sequence of keys
    Tokens,      \* bearer tokens: [iss, key, kid, aud, nbf, exp]
    Refresh,     \* REFRESH
    Retry,       \* the 30 s of jwks()
    MaxStale,    \* MAX_STALE
    Leeway,      \* LEEWAY
    Latency,     \* environment: the longest a fetch is under way
    MaxTime,     \* bound on the clock
    MaxFails,    \* bound on failing fetches and writes
    MaxRestarts, \* bound on restarts of the relay
    None

ASSUME LimitsAssumption ==
    /\ {Refresh, Retry, MaxStale, Leeway, Latency,
        MaxTime, MaxFails, MaxRestarts} \subseteq Nat
    /\ Retry <= Refresh /\ Refresh <= MaxStale

Names == {Order[i] : i \in DOMAIN Order}

(* A cached copy of the keys. *)
Entry == [keys : DOMAIN Published, fetched : Nat, next : Nat]

(* A file; Torn are the keys in one that was only half written. *)
Torn == 0
File == [keys : DOMAIN Published \cup {Torn}, mtime : Nat]

ASSUME ShapeAssumption ==
    /\ Order \in Seq(Names)
    /\ Published \in Seq({Published[v] : v \in DOMAIN Published}) /\ Published # <<>>
    /\ \A v \in DOMAIN Published :
         Published[v] \in Seq({Published[v][i] : i \in DOMAIN Published[v]})
    /\ None \notin Entry /\ None \notin File

VARIABLES
    time,      \* SystemTime::now()
    retired,   \* retired[v]: when the issuer replaced its v-th key set
    cache,     \* Issuers.cache
    disk,      \* the files jwks-<name>.json
    reqs,      \* where each request stands in identify() and jwks()
    good,      \* history: when the request for the latest cached copy began
    filed,     \* history: the same for the latest copy that reached the file
    fails, restarts

vars == <<time, retired, cache, disk, reqs, good, filed, fails, restarts>>

(* The key set the issuer publishes now. *)
Current == Len(retired) + 1

(* "fetch": the issuer has not answered; "reply": its answer is on the way; *)
(* "write", "insert", "use": the synchronous steps after it.                *)
Awaiting == {"fetch", "reply"}
Running  == {"write", "insert", "use"}

Idle == [pc |-> "idle", tok |-> None, pos |-> 0, now |-> 0, got |-> 0, ans |-> None]

TypeOK ==
    /\ time \in 0 .. MaxTime
    /\ retired \in Seq(Nat) /\ Current \in DOMAIN Published
    /\ cache \in [Names -> Entry \cup {None}]
    /\ disk \in [Names -> File \cup {None}]
    /\ reqs \in [Reqs -> [pc  : {"idle", "done"} \cup Awaiting \cup Running,
                          tok : Tokens \cup {None},
                          pos : 0 .. Len(Order),
                          now : 0 .. MaxTime,
                          got : 0 .. Len(Published),
                          ans : {None, "ok", "no keys", "refused"}]]
    /\ good \in [Names -> Nat \cup {None}] /\ filed \in [Names -> Nat \cup {None}]
    /\ fails \in 0 .. MaxFails /\ restarts \in 0 .. MaxRestarts

-----------------------------------------------------------------------------
(* jwt.rs *)

(* verify_sig against the keys that fit: the first of them decides, and a  *)
(* token without a key id fits them all.                                   *)
Fits(tok, k) == ~tok.kid \/ k = tok.key
SignedBy(tok, ks) ==
    \E i \in DOMAIN ks : ks[i] = tok.key /\ \A j \in 1 .. (i - 1) : ~Fits(tok, ks[j])

(* check_claims, at the time of the verification. *)
ClaimsHold(tok, n, t) ==
    /\ tok.aud \in Accepts[n]
    /\ tok.exp + Leeway >= t
    /\ tok.nbf <= t + Leeway

Verify(tok, n, v, t) == SignedBy(tok, Published[v]) /\ ClaimsHold(tok, n, t)

-----------------------------------------------------------------------------
(* issuers.rs *)

(* Mutant: a restart makes the keys look new. *)
LoadDiskNow(f) ==
    IF f = None \/ f.keys = Torn THEN None
    ELSE [keys |-> f.keys, fetched |-> time, next |-> time + Refresh]

(* The entry load_disk makes of a file: the age of the keys is the file's. *)
LoadDisk(f) ==
    IF f = None \/ f.keys = Torn THEN None
    ELSE [keys |-> f.keys, fetched |-> f.mtime, next |-> f.mtime + Refresh]

Init ==
    /\ time = 0
    /\ retired = <<>>
    /\ cache = [n \in Names |-> None]
    /\ disk = [n \in Names |-> None]
    /\ reqs = [r \in Reqs |-> Idle]
    /\ good = [n \in Names |-> None] /\ filed = [n \in Names |-> None]
    /\ fails = 0 /\ restarts = 0

(* Mutant: a copy is refreshed only once it may not be used any more. *)
DueWhenStale(n) == cache[n] = None \/ time > cache[n].fetched + MaxStale

(* jwks() finds the copy of n due for a refresh. *)
Due(n) == cache[n] = None \/ time >= cache[n].next

Answer(a) == [Idle EXCEPT !.pc = "done", !.ans = a]

(* The request turns to the i-th configured name: identify() skips names of *)
(* other issuers, jwks() reads the clock.  After the last name the request  *)
(* is refused with the latest reason.                                       *)
TryName(q, i, reason) ==
    IF i > Len(Order)
    THEN Answer(reason)
    ELSE [q EXCEPT !.pc = IF Due(Order[i]) THEN "fetch" ELSE "use",
                   !.pos = i, !.now = time, !.got = 0, !.ans = reason]

Arrive(r, tok) ==
    /\ reqs[r].pc \in {"idle", "done"}
    /\ reqs' = [reqs EXCEPT ![r] =
                  TryName([Idle EXCEPT !.tok = tok],
                          IF tok.iss THEN 1 ELSE Len(Order) + 1, "refused")]
    /\ UNCHANGED <<time, retired, cache, disk, good, filed, fails, restarts>>

(* fetch(): the issuer answers with the keys it publishes at that moment. *)
Serve(r) ==
    /\ reqs[r].pc = "fetch"
    /\ reqs' = [reqs EXCEPT ![r].pc = "reply", ![r].got = Current]
    /\ UNCHANGED <<time, retired, cache, disk, good, filed, fails, restarts>>

(* The answer arrives. *)
Fetched(r) ==
    /\ reqs[r].pc = "reply"
    /\ reqs' = [reqs EXCEPT ![r].pc = "write"]
    /\ UNCHANGED <<time, retired, cache, disk, good, filed, fails, restarts>>

(* Mutant: a failed refresh drops the copy. *)
PostponeEvicts(c, now) == None

(* The next attempt after a failed one; without an entry there is none to  *)
(* note it in.                                                             *)
Postpone(c, now) == IF c = None THEN None ELSE [c EXCEPT !.next = now + Retry]

FetchFails(r) ==
    LET q == reqs[r]  n == Order[q.pos] IN
    /\ q.pc \in Awaiting
    /\ fails < MaxFails
    /\ fails' = fails + 1
    /\ cache' = [cache EXCEPT ![n] = Postpone(@, q.now)]
    /\ reqs' = [reqs EXCEPT ![r].pc = "use"]
    /\ UNCHANGED <<time, retired, disk, good, filed, restarts>>

Latest(a, b) == IF a = None \/ a < b THEN b ELSE a

(* std::fs::write truncates and writes.  It may fail, which is ignored: to   *)
(* open the file, which then stays as it is, or later, with half of it       *)
(* written.                                                                  *)
WriteFile(r) ==
    LET q == reqs[r]  n == Order[q.pos] IN
    /\ q.pc = "write"
    /\ \/ /\ disk' = [disk EXCEPT ![n] = [keys |-> q.got, mtime |-> time]]
          /\ filed' = [filed EXCEPT ![n] = Latest(@, q.now)]
          /\ UNCHANGED fails
       \/ /\ fails < MaxFails
          /\ fails' = fails + 1
          /\ \/ UNCHANGED <<disk, filed>>
             \/ /\ disk' = [disk EXCEPT ![n] = [keys |-> Torn, mtime |-> time]]
                /\ filed' = [filed EXCEPT ![n] = None]
    /\ reqs' = [reqs EXCEPT ![r].pc = "insert"]
    /\ UNCHANGED <<time, retired, cache, good, restarts>>

(* Mutant: no time of the next attempt. *)
NewEntryBare(q) == [keys |-> q.got, fetched |-> q.now]

(* The copy is as old as the request that asked for it. *)
NewEntry(q) == [keys |-> q.got, fetched |-> q.now, next |-> q.now + Refresh]

Insert(r) ==
    LET q == reqs[r]  n == Order[q.pos] IN
    /\ q.pc = "insert"
    /\ cache' = [cache EXCEPT ![n] = NewEntry(q)]
    /\ good' = [good EXCEPT ![n] = Latest(@, q.now)]
    /\ reqs' = [reqs EXCEPT ![r].pc = "use"]
    /\ UNCHANGED <<time, retired, disk, filed, fails, restarts>>

(* The cached copy may be used by a request that read the clock at now. *)
Usable(c, now) == c # None /\ now <= c.fetched + MaxStale

(* The rest of jwks() and one turn of identify()'s loop. *)
Use(r) ==
    LET q == reqs[r]  n == Order[q.pos]  c == cache[n] IN
    /\ q.pc = "use"
    /\ reqs' = [reqs EXCEPT ![r] =
                  IF ~Usable(c, q.now) THEN TryName(q, q.pos + 1, "no keys")
                  ELSE IF Verify(q.tok, n, c.keys, time)
                       THEN Answer("ok")
                       ELSE TryName(q, q.pos + 1, "refused")]
    /\ UNCHANGED <<time, retired, cache, disk, good, filed, fails, restarts>>

(* The client goes away: hyper drops the request at its await. *)
HangUp(r) ==
    /\ reqs[r].pc \in Awaiting
    /\ reqs' = [reqs EXCEPT ![r] = Idle]
    /\ UNCHANGED <<time, retired, cache, disk, good, filed, fails, restarts>>

(* The relay dies, a file perhaps half written, and starts again: new(). *)
Restart ==
    /\ restarts < MaxRestarts
    /\ restarts' = restarts + 1
    /\ \E torn \in SUBSET {Order[reqs[r].pos] : r \in {x \in Reqs : reqs[x].pc = "write"}} :
         /\ disk' = [n \in Names |-> IF n \in torn THEN [keys |-> Torn, mtime |-> time]
                                                      ELSE disk[n]]
         /\ cache' = [n \in Names |-> LoadDisk(disk'[n])]
         /\ filed' = [n \in Names |-> IF n \in torn THEN None ELSE filed[n]]
         /\ good' = filed'
    /\ reqs' = [r \in Reqs |-> Idle]
    /\ UNCHANGED <<time, retired, fails>>

(* The issuer publishes its next key set. *)
Rotate ==
    /\ Current < Len(Published)
    /\ retired' = Append(retired, time)
    /\ UNCHANGED <<time, cache, disk, reqs, good, filed, fails, restarts>>

(* Time passes at the awaits only, and a fetch lasts at most Latency (the  *)
(* relay itself sets it no limit).                                         *)
Tick ==
    /\ time < MaxTime
    /\ \A r \in Reqs : /\ reqs[r].pc \notin Running
                       /\ reqs[r].pc \in Awaiting => time < reqs[r].now + Latency
    /\ time' = time + 1
    /\ UNCHANGED <<retired, cache, disk, reqs, good, filed, fails, restarts>>

Next ==
    \/ \E r \in Reqs :
         \/ \E tok \in Tokens : Arrive(r, tok)
         \/ Serve(r) \/ Fetched(r) \/ FetchFails(r) \/ HangUp(r)
         \/ WriteFile(r) \/ Insert(r) \/ Use(r)
    \/ Restart \/ Rotate \/ Tick

Spec == Init /\ [][Next]_vars

-----------------------------------------------------------------------------
(* Some key set with key k was the issuer's at time t or later. *)
PublishedSince(k, t) ==
    \E v \in 1 .. Current :
       /\ \E i \in DOMAIN Published[v] : Published[v][i] = k
       /\ v < Current => retired[v] >= t

(* Key k has been in every key set the issuer published since time t. *)
PublishedThroughout(k, t) ==
    \A v \in 1 .. Current :
       (v < Current => retired[v] >= t)
          => \E i \in DOMAIN Published[v] : Published[v][i] = k

Sub(a, b) == IF a < b THEN 0 ELSE a - b

(* Request r looks at the copy of its name. *)
Looks(r) == reqs[r].pc = "use" /\ reqs'[r] # reqs[r] /\ restarts' = restarts

(* The step answers request r, with a. *)
Answers(r, a) == reqs[r].pc = "use" /\ reqs'[r].pc = "done" /\ reqs'[r].ans = a

(* A token is accepted only on a key that the issuer still published       *)
(* MAX_STALE before the request, or a fetch's duration earlier when the    *)
(* keys came from the file: neither restarts, which start the cache from   *)
(* the file's age, nor refreshes that overtake each other, nor failing     *)
(* ones keep a withdrawn key alive longer (issuers.rs:171).                *)
WithdrawnKeyRefused ==
    [][\A r \in Reqs :
         Answers(r, "ok")
           => PublishedSince(reqs[r].tok.key, Sub(reqs[r].now, MaxStale + Latency))]_vars

(* While no fetch and no write has failed, a token that names its key is   *)
(* accepted at a name whose claims it meets once the key has been          *)
(* published for REFRESH and a fetch's duration: a request does not have   *)
(* an unknown key id looked up, it depends on the refreshes of the         *)
(* requests before it (issuers.rs:137).                                    *)
NewKeyAccepted ==
    [][\A r \in Reqs :
         LET q == reqs[r] IN
         /\ Looks(r)
         /\ fails = 0
         /\ q.tok.kid
         /\ ClaimsHold(q.tok, Order[q.pos], time)
         /\ PublishedThroughout(q.tok.key, Sub(q.now, Refresh + Latency))
         => reqs'[r].ans = "ok"]_vars

(* An outage of the issuer does not stop the relay: a request is turned    *)
(* away for want of keys only if the latest good copy is older than        *)
(* MAX_STALE, give or take a fetch that overtook it (issuers.rs:163,       *)
(* docs/DESIGN.md:72).  A restart is left with the latest copy that reached *)
(* the file: a write that failed to open it costs the restarted relay what *)
(* it fetched since, and half a file all of it (issuers.rs:149).           *)
OutageSurvived ==
    [][\A r \in Reqs :
         Answers(r, "no keys")
           => LET g == good[Order[reqs[r].pos]] IN
              g = None \/ reqs[r].now + Latency > g + MaxStale]_vars
=============================================================================
