--------------------------- MODULE CloudCollectors ---------------------------
(***************************************************************************)
(* The collectors of cloud logs (control-plane/src/cloud): the jobs that   *)
(* POST /api/v1/cloud/collect starts, which poll CloudTrail and GuardDuty  *)
(* or the sign-in and audit logs of AAD for a window of time, and          *)
(* stream_from_sqs, which follows a queue of notifications about log files *)
(* in S3.  The services themselves are external: a request may be answered,*)
(* limited or refused, and the queue delivers a message again when it was  *)
(* not deleted in time.  A log record is its id, in the order in which the *)
(* service lists the records of a stream, its time and whether the         *)
(* normalisation raises on it, as json.dumps does on every CloudTrail      *)
(* event whose EventTime is a datetime.                                    *)
(***************************************************************************)
EXTENDS Naturals, Sequences, SequencesExt, FiniteSets, Functions, Ordering

CONSTANTS
  CloudLog,     \* the records of all streams: [id, stream, at, bad]
  Detectors,    \* the detectors of GuardDuty, each with a stream of its own
  Lookbacks,    \* lookback_hours of a request
  PageSize,     \* records of a page, or of a batch of findings
  MaxItems,     \* 10000, the events of CloudTrail that a poll fetches at most
  TokenLife,    \* expires_in
  TokenMargin,  \* 60 s
  Messages,     \* notifications
  Files,        \* message -> sequence of files, BadBody when it cannot be parsed
  BadBody,
  Records,      \* file -> sequence of [id, bad]
  BatchMax,     \* MaxNumberOfMessages = 10
  LastHour,     \* bounds of this model: the last moment,
  MaxJobs,      \* the jobs started,
  MaxReceives   \* and the calls of receive_message

ASSUME CloudAssumption ==
  /\ IsFiniteSet(CloudLog) /\ \A e \in CloudLog : e.id \in Nat /\ e.at \in Nat
  /\ \A d, e \in CloudLog : d.id = e.id => d = e
  /\ Detectors \in Seq(Range(Detectors)) /\ IsInjective(Detectors)
  /\ Range(Detectors) \cap {"none", "trail", "signin", "audit"} = {}
  /\ Lookbacks \subseteq Nat /\ PageSize \in Nat \ {0} /\ MaxItems \in Nat
  /\ TokenLife \in Nat /\ TokenMargin \in Nat
  /\ IsFiniteSet(Messages)
  /\ \A m \in Messages : Files[m] = BadBody \/ Files[m] \in Seq(DOMAIN Records)
  /\ \A f \in DOMAIN Records : Records[f] \in Seq([id : Nat, bad : BOOLEAN])
  /\ LastHour \in Nat /\ MaxJobs \in Nat /\ MaxReceives \in Nat

NoJob == [on |-> FALSE]

VARIABLES
  time,
  pollJob,  \* the background task that runs, or NoJob
  jobs,     \* tasks started
  handed,   \* history: what the task gave to the ingester, in order
  queue,    \* message -> where it is: "unsent", "queued", "inflight", "gone"
  messages, \* the messages received and not yet passed
  file,     \* the file of the first message that is next, 1 before its body is parsed
  record,   \* the record of that file that is next, 0 before the download
  receives,
  yielded,  \* history: <<file, record number>> given out so far
  given     \* history: files that could not be read to their end

pollVars == <<pollJob, jobs, handed>>
queueVars == <<queue, messages, file, record, receives, yielded, given>>
cloudVars == <<time, pollVars, queueVars>>

CloudInit ==
  /\ time = 0
  /\ pollJob = NoJob /\ jobs = 0 /\ handed = <<>>
  /\ queue = [m \in Messages |-> "unsent"]
  /\ messages = <<>> /\ file = 1 /\ record = 0 /\ receives = 0
  /\ yielded = {} /\ given = {}

TimePasses ==
  /\ time < LastHour
  /\ time' = time + 1
  /\ UNCHANGED <<pollVars, queueVars>>

-----------------------------------------------------------------------------
Duty == Range(Detectors)

StreamsOf(provider) ==
  IF provider = "aws" THEN <<"trail">> \o Detectors ELSE <<"signin", "audit">>

(* Findings have no window: all that are active are listed.                *)
InWindow(stream, lookback) ==
  {e \in CloudLog : /\ e.stream = stream /\ e.at <= time
                    /\ stream \in Duty \/ e.at + lookback >= time}

(* The paginator of CloudTrail stops at MaxItems; the rest is not missed.  *)
UpToMaxItems(stream, es) ==
  {e \in es : stream = "trail" => Cardinality({d \in es : d.id < e.id}) < MaxItems}

Pages(es) ==
  LET s == Arranged(es, {w \in es \X es : w[1].id < w[2].id})
  IN  [p \in 1..((Len(s) + PageSize - 1) \div PageSize) |->
         AtPositions(s, {i \in 1..Len(s) : (i - 1) \div PageSize + 1 = p})]

(* trigger_collection: a collector of its own for every request.           *)
TriggerCollection(provider, lookback) ==
  /\ pollJob = NoJob /\ jobs < MaxJobs
  /\ jobs' = jobs + 1
  /\ pollJob' = [on |-> TRUE, todo |-> StreamsOf(provider), lookback |-> lookback, expires |-> 0,
             stream |-> "none", header |-> 0, asked |-> {}, pages |-> <<>>, page |-> <<>>,
             whole |-> TRUE]
  /\ handed' = <<>>
  /\ UNCHANGED <<time, queueVars>>

Running(streams) == pollJob.on /\ pollJob.stream \in streams
Between == pollJob.on /\ pollJob.stream = "none" /\ pollJob.todo # <<>>
Opened(expires) ==
  LET asked == InWindow(Head(pollJob.todo), pollJob.lookback)
  IN  [pollJob EXCEPT !.stream = Head(pollJob.todo), !.todo = Tail(@), !.asked = asked,
                      !.expires = expires, !.header = expires,
                      !.page = <<>>, !.pages = Pages(UpToMaxItems(Head(pollJob.todo), asked)),
                      !.whole = TRUE]

(* A stream that is over, or given up, makes room for the next.            *)
NextStream == [pollJob EXCEPT !.stream = "none", !.pages = <<>>, !.page = <<>>, !.asked = {}]

(* collect_cloudtrail: the window is fixed, then all pages are fetched;    *)
(* collect_guardduty does so for each detector.                            *)
OpenAws ==
  /\ Between /\ Head(pollJob.todo) \in {"trail"} \cup Duty
  /\ \/ pollJob' = Opened(0)
     \/ pollJob' = [pollJob EXCEPT !.todo = Tail(@)]     \* ClientError: logged, next stream
     \/ pollJob' = NoJob                             \* any other error ends the task
  /\ UNCHANGED <<time, jobs, handed, queueVars>>

(* list_detectors is refused: logged, there are no findings in this task.  *)
ListDetectorsFails ==
  /\ Between /\ pollJob.todo = Detectors
  /\ pollJob' = [pollJob EXCEPT !.todo = <<>>]
  /\ UNCHANGED <<time, jobs, handed, queueVars>>

(* _get_token: a token that is good for the margin is used again.          *)
TokenGood == time + TokenMargin < pollJob.expires

OpenAzure ==
  /\ Between /\ Head(pollJob.todo) \in {"signin", "audit"}
  /\ \/ TokenGood /\ pollJob' = Opened(pollJob.expires)
     \/ ~TokenGood /\ pollJob' = Opened(time + TokenLife)
     \/ ~TokenGood /\ pollJob' = NoJob               \* raise_for_status leaves the task
  /\ UNCHANGED <<time, jobs, handed, queueVars>>

NextPage(whole) ==
  [pollJob EXCEPT !.page = Head(pollJob.pages), !.pages = Tail(@), !.whole = @ /\ whole]

(* The next page of a poll; pages of CloudTrail are there already.         *)
FetchPage ==
  /\ pollJob.on /\ pollJob.page = <<>> /\ pollJob.pages # <<>>
  /\ Running({"signin", "audit"}) => time < pollJob.header
  /\ pollJob' = NextPage(TRUE)
  /\ UNCHANGED <<time, jobs, handed, queueVars>>

(* Mutant: the page that was refused is passed over.                       *)
SkipsPage == [pollJob EXCEPT !.pages = Tail(@)]

SamePage == pollJob

(* 429 on the sign-in log: sleep, then the same page again.                *)
RateLimited ==
  /\ Running({"signin"}) /\ pollJob.page = <<>> /\ pollJob.pages # <<>>
  /\ pollJob' = SamePage
  /\ UNCHANGED <<time, jobs, handed, queueVars>>

(* get_findings fails for a batch: the next one is tried.  Any other       *)
(* refusal of a page, and an expired token, ends the stream.               *)
PageFails ==
  /\ pollJob.on /\ pollJob.page = <<>> /\ pollJob.pages # <<>>
  /\ \/ Running(Duty) /\ pollJob' = [pollJob EXCEPT !.pages = Tail(@), !.whole = FALSE]
     \/ Running({"signin", "audit"}) /\ pollJob' = NextStream
     \/ Running(Duty) /\ pollJob' = NoJob           \* not a ClientError
  /\ UNCHANGED <<time, jobs, handed, queueVars>>

(* One record is normalised and awaited into the ingester.  A record that  *)
(* cannot be normalised ends the stream of AAD and the whole task of AWS;  *)
(* an error of the ingester ends the task.                                 *)
HandOver ==
  /\ pollJob.on /\ pollJob.page # <<>>
  /\ \/ /\ ~Head(pollJob.page).bad
        /\ pollJob' = [pollJob EXCEPT !.page = Tail(@)]
        /\ handed' = Append(handed, Head(pollJob.page))
     \/ /\ Head(pollJob.page).bad
        /\ pollJob' = IF Running({"signin", "audit"}) THEN NextStream ELSE NoJob
        /\ UNCHANGED handed
     \/ /\ ~Head(pollJob.page).bad
        /\ pollJob' = NoJob
        /\ UNCHANGED handed
  /\ UNCHANGED <<time, jobs, queueVars>>

EndStream ==
  /\ pollJob.on /\ pollJob.stream # "none" /\ pollJob.page = <<>> /\ pollJob.pages = <<>>
  /\ pollJob' = NextStream
  /\ UNCHANGED <<time, jobs, handed, queueVars>>

EndJob ==
  /\ pollJob.on /\ pollJob.stream = "none" /\ pollJob.todo = <<>>
  /\ pollJob' = NoJob
  /\ UNCHANGED <<time, jobs, handed, queueVars>>

PollNext ==
  \/ \E p \in {"aws", "azure"}, l \in Lookbacks : TriggerCollection(p, l)
  \/ OpenAws \/ ListDetectorsFails \/ OpenAzure \/ FetchPage \/ RateLimited \/ PageFails
  \/ HandOver \/ EndStream \/ EndJob

-----------------------------------------------------------------------------
Notify(m) ==
  /\ queue[m] = "unsent"
  /\ queue' = [queue EXCEPT ![m] = "queued"]
  /\ UNCHANGED <<time, pollVars, messages, file, record, receives, yielded, given>>

(* receive_message: any of the messages that are visible, in any order;    *)
(* after an error the loop sleeps and asks again.                          *)
ReceiveMessages ==
  /\ messages = <<>> /\ receives < MaxReceives
  /\ receives' = receives + 1
  /\ \E ms \in SUBSET {m \in Messages : queue[m] = "queued"} :
       /\ Cardinality(ms) <= BatchMax
       /\ messages' \in SetToSeqs(ms)
       /\ queue' = [m \in Messages |-> IF m \in ms THEN "inflight" ELSE queue[m]]
  /\ file' = 1 /\ record' = 0
  /\ UNCHANGED <<time, pollVars, yielded, given>>

(* The visibility timeout of SQS, also of a message that is being worked on.*)
VisibleAgain(m) ==
  /\ queue[m] = "inflight"
  /\ queue' = [queue EXCEPT ![m] = "queued"]
  /\ UNCHANGED <<time, pollVars, messages, file, record, receives, yielded, given>>

Current == Head(messages)
Parsed == messages # <<>> /\ Files[Current] # BadBody
AtFile == Parsed /\ file <= Len(Files[Current])
TheFile == Files[Current][file]

NextMessage == messages' = Tail(messages) /\ file' = 1 /\ record' = 0

(* Mutant: the message leaves the queue whatever came of it.               *)
DeletedAnyway == [queue EXCEPT ![Current] = "gone"]

LeftInQueue == queue

(* An exception on the body, or of the delete call: logged, next message.  *)
ProcessingFails ==
  /\ messages # <<>> /\ Files[Current] = BadBody
  /\ NextMessage /\ queue' = LeftInQueue
  /\ UNCHANGED <<time, pollVars, receives, yielded, given>>

(* _download_and_parse_s3 catches every error itself: the rest of the file *)
(* is given up and the message goes on as if it had been read.             *)
GiveUpFile ==
  /\ AtFile
  /\ record > 0 => Records[TheFile][record].bad
  /\ given' = given \cup {TheFile}
  /\ file' = file + 1 /\ record' = 0
  /\ UNCHANGED <<time, pollVars, queue, messages, receives, yielded>>

Download ==
  /\ AtFile /\ record = 0
  /\ IF Records[TheFile] = <<>> THEN file' = file + 1 /\ UNCHANGED record
                                ELSE record' = 1 /\ UNCHANGED file
  /\ UNCHANGED <<time, pollVars, queue, messages, receives, yielded, given>>

YieldRecord ==
  /\ AtFile /\ record > 0 /\ ~Records[TheFile][record].bad
  /\ yielded' = yielded \cup {<<TheFile, record>>}
  /\ IF record = Len(Records[TheFile]) THEN file' = file + 1 /\ record' = 0
                                       ELSE record' = record + 1 /\ UNCHANGED file
  /\ UNCHANGED <<time, pollVars, queue, messages, receives, given>>

(* delete_message; with a receipt that timed out it may do nothing.        *)
DeleteMessage ==
  /\ Parsed /\ file > Len(Files[Current])
  /\ \/ queue' = [queue EXCEPT ![Current] = "gone"]
     \/ queue' = queue                            \* refused, or the receipt is stale
  /\ NextMessage
  /\ UNCHANGED <<time, pollVars, receives, yielded, given>>

(* The reader stops between two records and a new one starts.              *)
StreamRestarts ==
  /\ messages # <<>>
  /\ messages' = <<>> /\ file' = 1 /\ record' = 0
  /\ UNCHANGED <<time, pollVars, queue, receives, yielded, given>>

QueueNext ==
  \/ \E m \in Messages : Notify(m) \/ VisibleAgain(m)
  \/ ReceiveMessages \/ ProcessingFails \/ GiveUpFile \/ Download \/ YieldRecord
  \/ DeleteMessage \/ StreamRestarts

CloudNext == TimePasses \/ PollNext \/ QueueNext

CloudSpec == CloudInit /\ [][CloudNext]_cloudVars

-----------------------------------------------------------------------------
CloudTypeOK ==
  /\ time \in 0..LastHour /\ jobs \in 0..MaxJobs /\ receives \in 0..MaxReceives
  /\ queue \in [Messages -> {"unsent", "queued", "inflight", "gone"}]
  /\ Range(messages) \subseteq Messages /\ Range(handed) \subseteq CloudLog

(* A task hands over no record twice; when a stream that was opened comes  *)
(* to its end, all of its window has been handed over, up to MaxItems of   *)
(* CloudTrail, and unless a batch of findings was refused                  *)
(* (collect_cloudtrail, collect_guardduty, collect_signin_logs,            *)
(* collect_audit_logs).                                                    *)
PollsAreComplete ==
  /\ IsInjective(handed)
  /\ pollJob.on /\ pollJob.stream # "none" =>
       /\ pollJob.whole => \A e \in UpToMaxItems(pollJob.stream, pollJob.asked) :
            e \in Range(handed) \cup Range(pollJob.page)
                  \cup UNION {Range(p) : p \in Range(pollJob.pages)}
       /\ \A e \in Range(handed) : e.stream = pollJob.stream => e \in pollJob.asked

(* A message leaves the queue only when each of its files was given out to *)
(* the last record or could not be read (stream_from_sqs), whatever was    *)
(* received, timed out, delivered again or restarted in between.           *)
DeletedWasRead ==
  \A m \in Messages : queue[m] = "gone" =>
    /\ Files[m] # BadBody
    /\ \A f \in Range(Files[m]) :
         f \in given \/ \A r \in DOMAIN Records[f] : <<f, r>> \in yielded

CloudSound == CloudTypeOK /\ PollsAreComplete /\ DeletedWasRead
=============================================================================
