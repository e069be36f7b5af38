----------------------------- MODULE ProbePool -----------------------------
(***************************************************************************)
(* The worker pool that ActiveEngine.ProbeHost (engine/active/prober.go),  *)
(* EvaluateMatrix (engine/active/matrix.go) and TCPCollector.Run           *)
(* (collector/tcp.go) each write out: a caller feeds a buffered channel of *)
(* jobs, goroutines probe them and send to a buffered channel of results,  *)
(* and the caller drains that channel only once every goroutine is done.   *)
(*                                                                         *)
(* The three differ in two ways.  TCPCollector fills and closes the job    *)
(* channel before it starts a worker (FeedFirst), sends nothing for a port *)
(* that is not open (OnlyOpen) and has no rate limiter (not Paced).  The   *)
(* other two are the same pool.  A job is its index in the list of ports.  *)
(***************************************************************************)
EXTENDS Naturals, FiniteSets

CONSTANTS MaxJobs,    \* bound on the number of jobs of a call
          MaxWorkers, \* bound on the configured number of workers
          Burst,      \* tokens the limiter holds when full (10 in the code)
          MaxRefill,  \* bound on the tokens the limiter adds
          Nothing     \* no job

ASSUME PoolAssumption ==
  /\ {MaxJobs, MaxRefill} \subseteq Nat /\ {MaxWorkers, Burst} \subseteq Nat \ {0}
  /\ Nothing \notin Nat

VARIABLES
  pool,       \* the call: the pool's kind, its jobs and its configured workers
  main,       \* what the caller does: start workers, feed, wait, drain, done
  spawned,    \* number of goroutines started
  fed, taken, \* jobs 1..fed were sent, 1..taken received
  jobsClosed,
  worker,     \* worker[w]: where goroutine w is
  holds,      \* holds[w]: the job it works on
  results,    \* jobs in the results channel
  resultsClosed,
  output,     \* jobs whose result the caller has collected
  ctx,        \* "live" or "done"
  tokens, refills,
  \* history
  probed,     \* jobs whose probe was started
  dropped,    \* jobs received and discarded because the context was done
  silent,     \* jobs that found a port that is not open (OnlyOpen)
  late        \* late[w]: probes w started after the context was done

channels == <<fed, taken, jobsClosed, results, resultsClosed>>
limiter  == <<tokens, refills>>
history  == <<probed, dropped, silent, late>>
poolVars == <<pool, main, spawned, channels, worker, holds, output, ctx, limiter, history>>

\* An empty list of ports becomes DefaultPorts() in TCPCollector; workers that
\* are not configured become 16 or 25.
Call == {c \in [kind : {"engine", "tcp"}, n : 0 .. MaxJobs, workers : 1 .. MaxWorkers] :
           c.kind = "tcp" => c.n > 0}

FeedFirst == pool.kind = "tcp"
OnlyOpen  == pool.kind = "tcp"
Paced     == pool.kind = "engine"
N    == pool.n
Jobs == 1 .. N
Goroutine == 1 .. MaxWorkers

\* No more workers than jobs and at least one.
WorkerCount ==
  LET capped == IF pool.workers > N THEN N ELSE pool.workers IN
  IF capped < 1 THEN 1 ELSE capped

\* A slip: a result buffer for one result per worker.
ResultsCapPerWorker == WorkerCount

\* The buffers of the two channels.
JobsCap == N
ResultsCap == N

Queued == (taken + 1) .. fed

InitPool ==
  /\ pool \in Call
  /\ main = IF FeedFirst THEN "feed" ELSE "spawn"
  /\ spawned = 0 /\ fed = 0 /\ taken = 0 /\ jobsClosed = FALSE
  /\ worker = [w \in Goroutine |-> "unborn"]
  /\ holds = [w \in Goroutine |-> Nothing]
  /\ results = {} /\ resultsClosed = FALSE /\ output = {}
  /\ ctx = "live"
  /\ tokens = Burst /\ refills = 0
  /\ probed = {} /\ dropped = {} /\ silent = {} /\ late = [w \in Goroutine |-> 0]

----------------------------------------------------------------------------
(* The caller *)

\* wg.Add(1) and go func()
Spawn ==
  /\ main = "spawn" /\ spawned < WorkerCount
  /\ spawned' = spawned + 1
  /\ worker' = [worker EXCEPT ![spawned + 1] = "range"]
  /\ UNCHANGED <<pool, main, channels, holds, output, ctx, limiter, history>>

Spawned ==
  /\ main = "spawn" /\ spawned = WorkerCount
  /\ main' = IF FeedFirst THEN "wait" ELSE "feed"
  /\ UNCHANGED <<pool, spawned, channels, worker, holds, output, ctx, limiter, history>>

\* jobs <- p: blocks while the buffer is full
Feed ==
  /\ main = "feed" /\ fed < N /\ Cardinality(Queued) < JobsCap
  /\ fed' = fed + 1
  /\ UNCHANGED <<pool, main, spawned, taken, jobsClosed, results, resultsClosed,
                 worker, holds, output, ctx, limiter, history>>

CloseJobs ==
  /\ main = "feed" /\ fed = N
  /\ jobsClosed' = TRUE
  /\ main' = IF FeedFirst THEN "spawn" ELSE "wait"
  /\ UNCHANGED <<pool, spawned, fed, taken, results, resultsClosed,
                 worker, holds, output, ctx, limiter, history>>

\* A slip: wg.Wait() is left out.
CloseResultsEarly ==
  /\ main = "wait"
  /\ resultsClosed' = TRUE
  /\ main' = "drain"
  /\ UNCHANGED <<pool, spawned, fed, taken, jobsClosed, results,
                 worker, holds, output, ctx, limiter, history>>

\* wg.Wait() returns and the results channel is closed.
CloseResults ==
  /\ main = "wait" /\ \A w \in 1 .. spawned : worker[w] = "exited"
  /\ resultsClosed' = TRUE
  /\ main' = "drain"
  /\ UNCHANGED <<pool, spawned, fed, taken, jobsClosed, results,
                 worker, holds, output, ctx, limiter, history>>

Drain ==
  /\ main = "drain"
  /\ output' = results /\ results' = {}
  /\ main' = "done"
  /\ UNCHANGED <<pool, spawned, fed, taken, jobsClosed, resultsClosed,
                 worker, holds, ctx, limiter, history>>

----------------------------------------------------------------------------
(* A worker *)

Move(w, from, to) == worker[w] = from /\ worker' = [worker EXCEPT ![w] = to]

\* for port := range jobs
Take(w) ==
  /\ Move(w, "range", "check") /\ Queued # {}
  /\ taken' = taken + 1
  /\ holds' = [holds EXCEPT ![w] = taken + 1]
  /\ UNCHANGED <<pool, main, spawned, fed, jobsClosed, results, resultsClosed,
                 output, ctx, limiter, history>>

JobsEnd(w) ==
  /\ Move(w, "range", "exited") /\ Queued = {} /\ jobsClosed
  /\ UNCHANGED <<pool, main, spawned, channels, holds, output, ctx, limiter, history>>

\* case <-ctx.Done(): the goroutine returns with the job it has received.
Drop(w) ==
  /\ Move(w, "check", "exited") /\ ctx = "done"
  /\ holds' = [holds EXCEPT ![w] = Nothing]
  /\ dropped' = dropped \cup {holds[w]}
  /\ UNCHANGED <<pool, main, spawned, channels, output, ctx, limiter, probed, silent, late>>

\* A slip: the context is not looked at before a probe.
ProceedRegardless(w) ==
  /\ Move(w, "check", IF Paced THEN "limit" ELSE "dial")
  /\ UNCHANGED <<pool, main, spawned, channels, holds, output, ctx, limiter, history>>

\* default: the context is live.
Proceed(w) ==
  /\ Move(w, "check", IF Paced THEN "limit" ELSE "dial") /\ ctx = "live"
  /\ UNCHANGED <<pool, main, spawned, channels, holds, output, ctx, limiter, history>>

\* A slip: the limiter is asked, not waited for.
WaitWithoutToken(w) ==
  /\ Move(w, "limit", "dial")
  /\ UNCHANGED <<pool, main, spawned, channels, holds, output, ctx, limiter, history>>

\* limiter.Wait takes a token, or fails at once when the context is done; the
\* error is ignored.  (It would also fail for a context whose deadline is too
\* close; the callers' contexts are cancelled only.)
Wait(w) ==
  /\ Move(w, "limit", "dial")
  /\ IF ctx = "done" THEN tokens' = tokens ELSE tokens > 0 /\ tokens' = tokens - 1
  /\ UNCHANGED <<pool, main, spawned, channels, holds, output, ctx, refills, history>>

\* The probe starts.
Dial(w) ==
  /\ Move(w, "dial", "probe")
  /\ probed' = probed \cup {holds[w]}
  /\ late' = IF ctx = "done" THEN [late EXCEPT ![w] = @ + 1] ELSE late
  /\ UNCHANGED <<pool, main, spawned, channels, holds, output, ctx, limiter, dropped, silent>>

\* It ends, with a result to send or, for a port that is not open, none.
Probe(w) ==
  \/ /\ Move(w, "probe", "send")
     /\ UNCHANGED <<pool, main, spawned, channels, holds, output, ctx, limiter, history>>
  \/ /\ OnlyOpen /\ Move(w, "probe", "range")
     /\ silent' = silent \cup {holds[w]}
     /\ holds' = [holds EXCEPT ![w] = Nothing]
     /\ UNCHANGED <<pool, main, spawned, channels, output, ctx, limiter, probed, dropped, late>>

\* A slip: the result of a probe is not sent once the context is done.
SendIfLive(w) ==
  /\ Move(w, "send", "range") /\ Cardinality(results) < ResultsCap
  /\ results' = IF ctx = "live" THEN results \cup {holds[w]} ELSE results
  /\ holds' = [holds EXCEPT ![w] = Nothing]
  /\ UNCHANGED <<pool, main, spawned, fed, taken, jobsClosed, resultsClosed,
                 output, ctx, limiter, history>>

\* results <- res: blocks while the buffer is full
Send(w) ==
  /\ Move(w, "send", "range") /\ Cardinality(results) < ResultsCap
  /\ results' = results \cup {holds[w]}
  /\ holds' = [holds EXCEPT ![w] = Nothing]
  /\ UNCHANGED <<pool, main, spawned, fed, taken, jobsClosed, resultsClosed,
                 output, ctx, limiter, history>>

----------------------------------------------------------------------------
(* The environment *)

\* The context is cancelled or its deadline passes.
Cancel ==
  /\ ctx = "live" /\ main # "done"
  /\ ctx' = "done"
  /\ UNCHANGED <<pool, main, spawned, channels, worker, holds, output, limiter, history>>

\* The limiter, of rate RateLimit per second, gains a token.
Refill ==
  /\ Paced /\ tokens < Burst /\ refills < MaxRefill
  /\ tokens' = tokens + 1 /\ refills' = refills + 1
  /\ UNCHANGED <<pool, main, spawned, channels, worker, holds, output, ctx, history>>

Caller == Spawn \/ Spawned \/ Feed \/ CloseJobs \/ CloseResults \/ Drain
Work(w) == Take(w) \/ JobsEnd(w) \/ Drop(w) \/ Proceed(w) \/ Wait(w)
             \/ Dial(w) \/ Probe(w) \/ Send(w)

NextPool == Caller \/ (\E w \in Goroutine : Work(w)) \/ Cancel \/ Refill

\* The Go scheduler runs every goroutine that can run, every probe has a
\* timeout, and the limiter's bucket refills with time.  Nothing has to cancel.
PoolFairness == WF_poolVars(Caller) /\ (\A w \in Goroutine : WF_poolVars(Work(w))) /\ WF_poolVars(Refill)

PoolSpec == InitPool /\ [][NextPool]_poolVars /\ PoolFairness

----------------------------------------------------------------------------
(* Properties *)

TypeOK ==
  /\ pool \in Call
  /\ main \in {"spawn", "feed", "wait", "drain", "done"}
  /\ spawned \in 0 .. WorkerCount /\ fed \in 0 .. N /\ taken \in 0 .. fed
  /\ {jobsClosed, resultsClosed} \subseteq BOOLEAN
  /\ worker \in [Goroutine -> {"unborn", "range", "check", "limit", "dial", "probe", "send", "exited"}]
  /\ holds \in [Goroutine -> Jobs \cup {Nothing}]
  /\ {results, output, probed, dropped, silent} \subseteq SUBSET Jobs
  /\ ctx \in {"live", "done"}
  /\ tokens \in 0 .. Burst /\ refills \in 0 .. MaxRefill
  /\ late \in [Goroutine -> Nat]

Busy == {w \in Goroutine : worker[w] \in {"check", "limit", "dial", "probe", "send"}}
Held == {holds[w] : w \in Busy}

\* Every job received is in exactly one place: with one worker, in the results,
\* collected, discarded, or found not open.  No result is lost or reported
\* twice, whatever the workers' interleaving and whenever the context ends.
EachJobOnce ==
  /\ Held \cup results \cup output \cup dropped \cup silent = 1 .. taken
  /\ Held \cap (results \cup output \cup dropped \cup silent) = {}
  /\ results \cap (output \cup dropped \cup silent) = {}
  /\ output \cap (dropped \cup silent) = {}
  /\ dropped \cap silent = {}
  /\ \A v, w \in Busy : holds[v] = holds[w] => v = w

\* A caller whose context stays live gets an answer for every port it asked
\* about; a cancelled one gets at least the answers of the probes it made.
NoAnswerLost ==
  main = "done" =>
    /\ output = probed \ silent
    /\ ctx = "live" => output \cup silent = Jobs

\* The results channel is closed only when no goroutine can send on it again
\* (a send would panic), and the caller leaves no goroutine behind.
QuietAfterClose ==
  resultsClosed => /\ spawned = WorkerCount
                   /\ \A w \in 1 .. WorkerCount : worker[w] = "exited"

\* Until the context is done, no more probes are started than the limiter's
\* burst and the tokens added since allow.
RateRespected ==
  Paced /\ ctx = "live" => Cardinality(probed) <= Burst + refills

\* Once the context is done a worker starts at most the one probe it was about
\* to start; every other port is left alone.
CancelStopsProbing == \A w \in Goroutine : late[w] <= 1

\* The call returns, whether or not the context is done: no send blocks for
\* good although nobody receives before the workers have ended.
Returns == <>(main = "done")
============================================================================
