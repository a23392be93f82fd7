---------------------------- MODULE StreamScanner ----------------------------
(***************************************************************************)
(* StreamScannerHandler (relay/helper/stream_scanner.go): a request        *)
(* goroutine, a scanner that reads the upstream line by line, one          *)
(* goroutine per line for the data handler, a ping goroutine and one       *)
(* goroutine per ping, which share stopChan, scannerDone, a context, a     *)
(* mutex and a wait group.                                                 *)
(*                                                                         *)
(* A timer may fire at any moment its goroutine listens to it.  Each of    *)
(* the select statements may take any of its branches that is ready.       *)
(***************************************************************************)
EXTENDS Integers

CONSTANTS
    Lines,      \* number of data lines the upstream sends at most
    MaxPings    \* bound: pings sent

ASSUME StreamScannerAssumption == Lines \in Nat /\ MaxPings \in Nat

VARIABLES
    main,       \* the request goroutine, in the order of its deferred calls
    scanner,    \* the scanner goroutine
    line,       \* lines the scanner has read
    handler,    \* the goroutine of each line's dataHandler
    ping,       \* the ping goroutine
    writer,     \* the goroutine of the last ping
    mutex,      \* writeMutex
    stop,       \* values waiting in stopChan
    scannerDone,    \* scannerDone is closed
    cancelled,  \* ctx is cancelled
    clientGone, \* c.Request.Context() is done
    body,       \* resp.Body: still sending, at its end, or closed by us
    pings       \* bounded counter

mainVars == <<main, cancelled, body>>
scannerVars == <<main, scanner, line, handler, ping, writer, mutex, stop, scannerDone,
                 cancelled, clientGone, body, pings>>

-----------------------------------------------------------------------------
Number == 1..Lines

ScannerInit ==
    /\ main = "waiting" /\ scanner = "scanning" /\ line = 0
    /\ handler = [i \in Number |-> "none"]
    /\ ping \in {"listening", "done"}    \* pings may be switched off
    /\ writer = "none" /\ mutex = "free"
    /\ stop = 0 /\ scannerDone = FALSE
    /\ cancelled = FALSE /\ clientGone = FALSE /\ body = "open"
    /\ pings = 0

\* Capacity of stopChan.
Buffer == 3

\* A send to stopChan: without room the sender waits; once the function has
\* returned the channel is closed, and the panic of the send is recovered.
Send ==
    \/ main # "returned" /\ stop < Buffer /\ stop' = stop + 1
    \/ main = "returned" /\ UNCHANGED stop

\* A receive from stopChan; of a closed channel it never waits.
Receive ==
    \/ stop > 0 /\ stop' = stop - 1
    \/ stop = 0 /\ main = "returned" /\ UNCHANGED stop

-----------------------------------------------------------------------------
(* The client and the upstream.                                            *)

ClientLeaves ==
    /\ ~clientGone /\ main # "returned"
    /\ clientGone' = TRUE
    /\ UNCHANGED <<mainVars, scanner, line, handler, ping, writer, mutex, stop,
                   scannerDone, pings>>

UpstreamEnds ==
    /\ body = "open"
    /\ body' = "ended"
    /\ UNCHANGED <<main, cancelled, scanner, line, handler, ping, writer, mutex,
                   stop, scannerDone, clientGone, pings>>

-----------------------------------------------------------------------------
(* The scanner goroutine.                                                  *)

ScanLine ==
    /\ scanner = "scanning" /\ line < Lines
    /\ line' = line + 1
    /\ scanner' = "checking"
    /\ UNCHANGED <<mainVars, handler, ping, writer, mutex, stop, scannerDone,
                   clientGone, pings>>

\* Scan() returns false.
ScanEnds ==
    /\ scanner = "scanning" /\ body # "open"
    /\ scanner' = "leaving"
    /\ UNCHANGED <<mainVars, line, handler, ping, writer, mutex, stop, scannerDone,
                   clientGone, pings>>

\* Before a line is handled: stop, if asked to.
CheckStops ==
    /\ scanner = "checking"
    /\ \/ Receive
       \/ (cancelled \/ clientGone) /\ UNCHANGED stop
    /\ scanner' = "leaving"
    /\ UNCHANGED <<mainVars, line, handler, ping, writer, mutex, scannerDone,
                   clientGone, pings>>

\* A line that is no data is skipped, [DONE] ends the loop, and a data line
\* gets a goroutine.
CheckPasses ==
    /\ scanner = "checking" /\ stop = 0 /\ ~cancelled /\ ~clientGone
    /\ \/ scanner' = "scanning" /\ handler' = [handler EXCEPT ![line] = "ok"]
       \/ scanner' = "leaving" /\ UNCHANGED handler
       \/ scanner' = "handling" /\ handler' = [handler EXCEPT ![line] = "locking"]
    /\ UNCHANGED <<mainVars, line, ping, writer, mutex, stop, scannerDone,
                   clientGone, pings>>

\* The data handler answered.
HandlerAnswers ==
    /\ scanner = "handling" /\ handler[line] \in {"ok", "refused"}
    /\ scanner' = IF handler[line] = "ok" THEN "scanning" ELSE "leaving"
    /\ UNCHANGED <<mainVars, line, handler, ping, writer, mutex, stop, scannerDone,
                   clientGone, pings>>

\* Mutant: after ten seconds the scanner goes on with the next line.
HandlerLeftBehind ==
    /\ scanner = "handling"
    /\ scanner' = "scanning"
    /\ UNCHANGED <<mainVars, line, handler, ping, writer, mutex, stop, scannerDone,
                   clientGone, pings>>

\* Ten seconds without an answer, or the end of the context.
HandlerGivenUp ==
    /\ scanner = "handling"
    /\ scanner' = "leaving"
    /\ UNCHANGED <<mainVars, line, handler, ping, writer, mutex, stop, scannerDone,
                   clientGone, pings>>

\* stopChan, while the handler works.
HandlerStopped ==
    /\ scanner = "handling" /\ Receive
    /\ scanner' = "leaving"
    /\ UNCHANGED <<mainVars, line, handler, ping, writer, mutex, scannerDone,
                   clientGone, pings>>

\* The deferred calls of the scanner goroutine, in the order they run.
ScannerSignals ==
    /\ scanner = "leaving" /\ Send
    /\ scanner' = "signalled"
    /\ UNCHANGED <<mainVars, line, handler, ping, writer, mutex, scannerDone,
                   clientGone, pings>>

ScannerCloses ==
    /\ scanner = "signalled"
    /\ scannerDone' = TRUE
    /\ scanner' = "done"
    /\ UNCHANGED <<mainVars, line, handler, ping, writer, mutex, stop, clientGone,
                   pings>>

-----------------------------------------------------------------------------
(* The goroutine of a line's handler.                                      *)

HandlerLocks(i) ==
    /\ handler[i] = "locking" /\ mutex = "free"
    /\ mutex' = "handler"
    /\ handler' = [handler EXCEPT ![i] = "running"]
    /\ UNCHANGED <<mainVars, scanner, line, ping, writer, stop, scannerDone,
                   clientGone, pings>>

\* dataHandler returns true or false.
HandlerReturns(i) ==
    /\ handler[i] = "running"
    /\ mutex' = "free"
    /\ \E r \in {"ok", "refused"} : handler' = [handler EXCEPT ![i] = r]
    /\ UNCHANGED <<mainVars, scanner, line, ping, writer, stop, scannerDone,
                   clientGone, pings>>

-----------------------------------------------------------------------------
(* The ping goroutine and the goroutine of each ping.                      *)

PingTicks ==
    /\ ping = "listening" /\ pings < MaxPings
    /\ pings' = pings + 1
    /\ ping' = "pinging" /\ writer' = "locking"
    /\ UNCHANGED <<mainVars, scanner, line, handler, mutex, stop, scannerDone,
                   clientGone>>

\* Mutant: the ping is written without the mutex.
WriterSkipsLock ==
    /\ writer = "locking"
    /\ writer' = "writing"
    /\ UNCHANGED <<mainVars, scanner, line, handler, ping, mutex, stop,
                   scannerDone, clientGone, pings>>

WriterLocks ==
    /\ writer = "locking" /\ mutex = "free"
    /\ mutex' = "writer" /\ writer' = "writing"
    /\ UNCHANGED <<mainVars, scanner, line, handler, ping, stop, scannerDone,
                   clientGone, pings>>

WriterReturns ==
    /\ writer = "writing"
    /\ mutex' = "free" /\ writer' = "none"
    /\ UNCHANGED <<mainVars, scanner, line, handler, ping, stop, scannerDone,
                   clientGone, pings>>

PingSent ==
    /\ ping = "pinging" /\ writer = "none"
    /\ ping' = "listening"
    /\ UNCHANGED <<mainVars, scanner, line, handler, writer, mutex, stop,
                   scannerDone, clientGone, pings>>

\* The end of the context, a value of stopChan, the client while it listens,
\* and the timers: a ping of ten seconds, half an hour of pings.
PingStops ==
    /\ ping \in {"listening", "pinging"}
    /\ \/ cancelled /\ UNCHANGED stop
       \/ Receive
       \/ clientGone /\ ping = "listening" /\ UNCHANGED stop
    /\ ping' = "done"
    /\ UNCHANGED <<mainVars, scanner, line, handler, writer, mutex, scannerDone,
                   clientGone, pings>>

PingTimesOut ==
    /\ ping \in {"listening", "pinging"}
    /\ ping' = "done"
    /\ UNCHANGED <<mainVars, scanner, line, handler, writer, mutex, stop,
                   scannerDone, clientGone, pings>>

-----------------------------------------------------------------------------
(* The request goroutine.                                                  *)

\* Mutant: only stopChan tells it that the stream has ended.
WokenByStopOnly == Receive \/ (clientGone /\ UNCHANGED stop)

\* The select that waits for the stream to end, without its timer.
Woken ==
    \/ scannerDone /\ UNCHANGED stop
    \/ Receive
    \/ clientGone /\ UNCHANGED stop

Wakes ==
    /\ main = "waiting" /\ Woken
    /\ main' = "cancelling"
    /\ UNCHANGED <<cancelled, body, scanner, line, handler, ping, writer, mutex,
                   scannerDone, clientGone, pings>>

\* streamingTimeout since the last line.
TimesOut ==
    /\ main = "waiting"
    /\ main' = "cancelling"
    /\ UNCHANGED <<cancelled, body, scanner, line, handler, ping, writer, mutex,
                   stop, scannerDone, clientGone, pings>>

\* The deferred cancel() runs before the deferred clean-up.
Cancels ==
    /\ main = "cancelling"
    /\ cancelled' = TRUE
    /\ main' = "signalling"
    /\ UNCHANGED <<body, scanner, line, handler, ping, writer, mutex, stop,
                   scannerDone, clientGone, pings>>

Signals ==
    /\ main = "signalling" /\ Send
    /\ main' = "closing"
    /\ UNCHANGED <<cancelled, body, scanner, line, handler, ping, writer, mutex,
                   scannerDone, clientGone, pings>>

Closes ==
    /\ main = "closing"
    /\ body' = "closed"
    /\ main' = "joining"
    /\ UNCHANGED <<cancelled, scanner, line, handler, ping, writer, mutex, stop,
                   scannerDone, clientGone, pings>>

Joined == scanner = "done" /\ ping = "done"

\* wg.Wait() returns; stopChan is closed and the handler returns.
Joins ==
    /\ main = "joining" /\ Joined
    /\ main' = "returned"
    /\ UNCHANGED <<cancelled, body, scanner, line, handler, ping, writer, mutex,
                   stop, scannerDone, clientGone, pings>>

\* Five seconds without them.
JoinTimesOut ==
    /\ main = "joining" /\ ~Joined
    /\ main' = "returned"
    /\ UNCHANGED <<cancelled, body, scanner, line, handler, ping, writer, mutex,
                   stop, scannerDone, clientGone, pings>>

-----------------------------------------------------------------------------
ScannerStep ==
    \/ ScanEnds \/ CheckStops \/ CheckPasses \/ HandlerAnswers \/ HandlerGivenUp
    \/ HandlerStopped \/ ScannerSignals \/ ScannerCloses

MainStep == Wakes \/ Cancels \/ Signals \/ Closes \/ Joins

Done == main = "returned" /\ UNCHANGED scannerVars

ScannerNext ==
    \/ ClientLeaves \/ UpstreamEnds \/ ScanLine \/ ScannerStep
    \/ \E i \in Number : HandlerLocks(i) \/ HandlerReturns(i)
    \/ PingTicks \/ WriterLocks \/ WriterReturns \/ PingSent \/ PingStops \/ PingTimesOut
    \/ MainStep \/ TimesOut \/ JoinTimesOut \/ Done

ScannerSpec == ScannerInit /\ [][ScannerNext]_scannerVars

\* The three goroutines run on, and a timer of ten seconds ends the scanner's
\* wait for a handler.  Neither the streaming timeout nor the five seconds of
\* the join are relied on, nor that the upstream, the client, a data handler
\* or a write ever comes to an end.
FairScannerSpec ==
    /\ ScannerSpec
    /\ WF_scannerVars(MainStep) /\ WF_scannerVars(ScannerStep) /\ WF_scannerVars(PingStops)

-----------------------------------------------------------------------------
ScannerTypeOK ==
    /\ main \in {"waiting", "cancelling", "signalling", "closing", "joining", "returned"}
    /\ scanner \in {"scanning", "checking", "handling", "leaving", "signalled", "done"}
    /\ line \in 0..Lines
    /\ handler \in [Number -> {"none", "locking", "running", "ok", "refused"}]
    /\ ping \in {"listening", "pinging", "done"}
    /\ writer \in {"none", "locking", "writing"}
    /\ mutex \in {"free", "handler", "writer"}
    /\ stop \in 0..3 /\ pings \in 0..MaxPings
    /\ scannerDone \in BOOLEAN /\ cancelled \in BOOLEAN /\ clientGone \in BOOLEAN
    /\ body \in {"open", "ended", "closed"}

\* Lines are handled one after the other: a line's handler exists only when
\* every earlier line was accepted, so that a refusal or a slow handler stops
\* the stream and two handlers never share the response
\* (stream_scanner.go:232).
LinesInTurn ==
    \A i, j \in Number : i < j /\ handler[j] # "none" => handler[i] = "ok"

\* The response has one writer at a time, ping or handler, also when one of
\* them was given up after its timeout and still runs (stream_scanner.go:50).
OneWriter ==
    /\ \A i, j \in Number : handler[i] = "running" /\ handler[j] = "running" => i = j
    /\ \A i \in Number : handler[i] = "running" => writer # "writing"

\* A goroutine that leaves always finds room in stopChan: nobody is kept by a
\* message nobody reads (stream_scanner.go:45).
StopHasRoom ==
    scanner = "leaving" \/ main = "signalling" => stop < Buffer

\* The end of the stream reaches the request, whoever takes the value out of
\* stopChan, and once the end has come or the client has gone it returns
\* without waiting for a timeout: the context, stopChan and the closed body
\* get the scanner and the pings out of whatever they wait for
\* (stream_scanner.go:46, stream_scanner.go:81).
ReturnsPromptly ==
    scannerDone \/ clientGone ~> main = "returned"

\* When the function has returned, and not because of the five seconds, all
\* of its goroutines have ended (stream_scanner.go:71).
\* It does not hold: README, section 6.
QuietAfterReturn ==
    main = "returned" /\ Joined =>
        /\ \A i \in Number : handler[i] \notin {"locking", "running"}
        /\ writer = "none"
=============================================================================
