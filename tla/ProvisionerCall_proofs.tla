------------------------ MODULE ProvisionerCall_proofs ------------------------
(* Theorems of ProvisionerCall, for any jobs, limits, timeouts, clocks and   *)
(* faults.  A verdict reaches a job only through a service of its present    *)
(* call; and within its window, which the worker's and the provisioner's     *)
(* clocks may see differently, a request is in the nonce store exactly if it *)
(* was taken since the last restart.                                         *)
EXTENDS ProvisionerCall, FiniteSetTheorems, TLAPS

AttemptsCounted ==
  \A j \in Jobs :
    /\ Phase(j) \in {"slot", "calling"} => job[j].attempt \in 1..MaxAttempts
    /\ Phase(j) = "queued" => job[j].attempt < MaxAttempts

\* Replies and services belong to the present call.
RepliesOfServices ==
  \A j \in Jobs :
    /\ Phase(j) # "calling" => job[j].reply = NULL /\ job[j].services = 0
    /\ job[j].reply \in Verdicts => job[j].reply = job[j].said

\* What a job ends with is what a service said for the job's last request, or
\* a retryable code after the last attempt.
VerdictOfService ==
  \A j \in Jobs : Phase(j) = "ended" =>
    \/ job[j].result = job[j].said
    \/ job[j].result = "retryable" /\ job[j].attempt = MaxAttempts

NoncesSent == \A r \in nonces : Sent(r)

NoncesOfTaken ==
  \A r \in Requests : Sent(r) /\ Seen(r) < RequestAge => (r \in nonces <=> request[r].taken > 0)

\* No attempt is sent twice.
SentOnce ==
  \A r \in Requests : Sent(r) =>
    \/ r[2] < job[r[1]].attempt
    \/ r[2] = job[r[1]].attempt /\ Phase(r[1]) # "slot"

IInv ==
  /\ TypeOK /\ AttemptsCounted /\ RepliesOfServices /\ VerdictOfService
  /\ NoncesSent /\ NoncesOfTaken /\ SentOnce

-----------------------------------------------------------------------------
LEMMA InitHolds == Init => IInv
<1> SUFFICES ASSUME Init PROVE IInv
  OBVIOUS
<1> USE CallAssumption DEF Init
<1>1. \A size \in Sizes : NewJob(size) \in JobRows
  BY DEF NewJob, JobRows
<1>2. \A j \in Jobs : \E size \in Sizes : job[j] = NewJob(size)
  OBVIOUS
<1>3. TypeOK
  BY <1>1 DEF TypeOK
<1>4. AttemptsCounted /\ RepliesOfServices /\ VerdictOfService
  BY <1>2 DEF AttemptsCounted, RepliesOfServices, VerdictOfService, Phase, NewJob, Replies, Verdicts
<1> QED BY <1>3, <1>4 DEF IInv, NoncesSent, NoncesOfTaken, SentOnce, Sent

LEMMA CurrentIsRequest ==
  ASSUME IInv, NEW j \in Jobs, Phase(j) \in {"slot", "calling"}
  PROVE  Current(j) \in Requests
BY DEF IInv, AttemptsCounted, Current, Requests

\* One job changes, nothing else does.
JobOk(row) ==
  /\ row \in JobRows
  /\ row.phase \in {"slot", "calling"} => row.attempt \in 1..MaxAttempts
  /\ row.phase = "queued" => row.attempt < MaxAttempts
  /\ row.phase # "calling" => row.reply = NULL /\ row.services = 0
  /\ row.reply \in Verdicts => row.reply = row.said
  /\ row.phase = "ended" => row.result = row.said \/ (row.result = "retryable" /\ row.attempt = MaxAttempts)

JobsInv == job \in [Jobs -> JobRows] /\ \A j \in Jobs : JobOk(job[j])
StoreInv ==
  /\ request \in [Requests -> RequestRows \cup {NULL}] /\ nonces \subseteq Requests
  /\ lead \in Leads /\ faults \in 0..MaxFaults /\ NoncesSent /\ NoncesOfTaken

LEMMA Parts == IInv <=> JobsInv /\ StoreInv /\ SentOnce
BY DEF IInv, JobsInv, StoreInv, JobOk, TypeOK, AttemptsCounted, RepliesOfServices, VerdictOfService, Phase

LEMMA PartsAfter == JobsInv' /\ StoreInv' /\ SentOnce' => IInv'
BY DEF IInv, JobsInv, StoreInv, JobOk, TypeOK, AttemptsCounted, RepliesOfServices, VerdictOfService, Phase

LEMMA OneJob ==
  ASSUME JobsInv, NEW j \in Jobs, NEW row, JobOk(row), job' = [job EXCEPT ![j] = row]
  PROVE  JobsInv'
BY DEF JobsInv, JobOk

LEMMA StoreStands ==
  ASSUME StoreInv, UNCHANGED <<request, nonces, lead, faults>>
  PROVE  StoreInv'
BY DEF StoreInv, NoncesSent, NoncesOfTaken, Sent, Seen

LEMMA FetchHolds ==
  ASSUME JobsInv, NEW j \in Jobs, Fetch(j)
  PROVE  JobsInv'
<1> DEFINE row == [job[j] EXCEPT !.phase = "slot", !.attempt = @ + 1]
<1>1. JobOk(row)
  BY CallAssumption DEF JobsInv, JobOk, JobRows, Fetch, Phase
<1> QED BY <1>1, OneJob DEF Fetch

LEMMA SettleHolds ==
  ASSUME JobsInv, NEW j \in Jobs, Phase(j) = "calling", NEW result \in Verdicts \cup {"retryable"},
         result \in Verdicts => result = job[j].said, Settle(j, result)
  PROVE  JobsInv'
<1> DEFINE ends == result \in Verdicts \/ job[j].attempt = MaxAttempts
<1>1. job[j] \in JobRows /\ job[j].attempt \in 1..MaxAttempts
  BY DEF JobsInv, JobOk, Phase
<1>2. PICK phase : phase = IF ends THEN "ended" ELSE "queued"
  OBVIOUS
<1> DEFINE row == [job[j] EXCEPT !.phase = phase, !.result = result, !.services = 0, !.reply = NULL]
<1>3. row \in JobRows /\ row.reply = NULL /\ row.services = 0 /\ row.phase = phase /\ row.result = result
      /\ row.attempt = job[j].attempt /\ row.said = job[j].said
  BY <1>1, <1>2 DEF JobRows
<1>4. JobOk(row)
  <2> HIDE DEF row
  <2>1. CASE ends
    BY <1>1, <1>2, <1>3, <2>1, CallAssumption DEF JobOk, Replies
  <2>2. CASE ~ ends
    BY <1>1, <1>2, <1>3, <2>2, CallAssumption DEF JobOk, Replies
  <2> QED BY <2>1, <2>2
<1>5. job' = [job EXCEPT ![j] = row]
  BY <1>2 DEF Settle
<1> HIDE DEF row
<1> QED BY <1>4, <1>5, OneJob

LEMMA ServiceHolds ==
  ASSUME JobsInv, NEW j \in Jobs, Service(j)
  PROVE  JobsInv'
<1>0. ASSUME job[j].services > 0
      PROVE  job[j] \in JobRows /\ job[j].phase = "calling" /\ job[j].services - 1 \in Nat
             /\ job[j].attempt \in 1..MaxAttempts
  BY <1>0 DEF JobsInv, JobOk, JobRows
<1>1. ASSUME NEW verdict \in Verdicts, Answer(j, verdict) PROVE JobsInv'
  <2> DEFINE row == [job[j] EXCEPT !.services = @ - 1, !.said = verdict, !.reply = verdict]
  <2>1. JobOk(row)
    BY <1>0, <1>1, CallAssumption DEF Answer, JobOk, JobRows, Replies
  <2> QED BY <1>1, <2>1, OneJob DEF Answer
<1>2. ASSUME Falters(j) PROVE JobsInv'
  <2> DEFINE row == [job[j] EXCEPT !.services = @ - 1, !.reply = "retryable"]
  <2>1. JobOk(row)
    BY <1>0, <1>2, CallAssumption DEF Falters, JobOk, JobRows, Replies
  <2> QED BY <1>2, <2>1, OneJob DEF Falters
<1> QED BY <1>1, <1>2 DEF Service

\* A reply of the endpoint reaches the call it is for, if any.
LEMMA ReplyHolds ==
  ASSUME JobsInv, NEW r \in Requests, NEW status \in {"401", "retryable"}, Reply(r, status)
  PROVE  JobsInv'
<1>1. r[1] \in Jobs
  BY DEF Requests
<1>2. CASE Calling(r)
  <2> DEFINE row == [job[r[1]] EXCEPT !.reply = status]
  <2>1. JobOk(row)
    BY <1>1, <1>2, CallAssumption DEF Calling, Phase, JobsInv, JobOk, JobRows, Replies
  <2> QED BY <1>1, <1>2, <2>1, OneJob DEF Reply
<1>3. CASE ~ Calling(r)
  BY <1>3 DEF Reply, JobsInv, JobOk
<1> QED BY <1>2, <1>3

-----------------------------------------------------------------------------
(* The requests and the nonce store. *)

LEMMA Numbers ==
  ASSUME StoreInv
  PROVE  /\ lead \in Int /\ RequestAge \in Nat /\ MaxAge \in Nat /\ MaxAge + lead > RequestAge
         /\ \A r \in Requests : Sent(r) =>
              request[r] \in RequestRows /\ request[r].age \in Nat /\ Seen(r) \in Int
BY CallAssumption DEF StoreInv, MaxAge, Sent, Seen, RequestRows

\* A new request has not been taken, and its nonce is nowhere.
LEMMA CallStores ==
  ASSUME IInv, NEW j \in Jobs, Call(j), ~ Sent(Current(j))
  PROVE  StoreInv'
<1> DEFINE new == [age |-> 0, copies |-> 1, taken |-> 0]
<1>1. StoreInv /\ Current(j) \in Requests
  BY Parts, CurrentIsRequest DEF Call
<1>2. new \in RequestRows /\ new # NULL /\ new.taken = 0
  BY CallAssumption DEF RequestRows
<1>3. request' = [request EXCEPT ![Current(j)] = new] /\ UNCHANGED <<nonces, lead, faults>>
  BY DEF Call
<1> HIDE DEF new
<1> QED BY <1>1, <1>2, <1>3 DEF StoreInv, NoncesSent, NoncesOfTaken, Sent, Seen

\* A copy that is not taken may drop entries whose window is over.
LEMMA RefusalStores ==
  ASSUME StoreInv, NEW r \in Requests, Sent(r), request[r].copies > 0, request' = Consumed(r),
         nonces' \in {nonces, Kept}, UNCHANGED <<lead, faults>>
  PROVE  StoreInv'
<1> DEFINE row == [request[r] EXCEPT !.copies = @ - 1]
<1>1. row \in RequestRows /\ row.age = request[r].age /\ row.taken = request[r].taken
  BY Numbers DEF RequestRows
<1>2. request' = [request EXCEPT ![r] = row] /\ row # NULL
  BY <1>1, CallAssumption DEF Consumed
<1> HIDE DEF row
<1> QED BY <1>1, <1>2 DEF StoreInv, NoncesSent, NoncesOfTaken, Sent, Seen, Kept

LEMMA TakingStores ==
  ASSUME StoreInv, NEW r \in Requests, Sent(r), request[r].copies > 0, Take(r), UNCHANGED <<lead, faults>>
  PROVE  StoreInv'
<1> DEFINE once == [request[r] EXCEPT !.copies = @ - 1]
           row == [once EXCEPT !.taken = @ + 1]
<1>1. row \in RequestRows /\ row.age = request[r].age /\ row.taken > 0
  <2>1. once \in RequestRows /\ once.age = request[r].age
    BY Numbers DEF RequestRows
  <2> HIDE DEF once
  <2> QED BY <2>1 DEF RequestRows
<1>2. request' = [request EXCEPT ![r] = row] /\ row # NULL
  <2>1. request' = [[request EXCEPT ![r] = once] EXCEPT ![r].taken = @ + 1]
    BY DEF Take, Consumed
  <2>2. request \in [Requests -> RequestRows \cup {NULL}]
    BY DEF StoreInv
  <2> HIDE DEF once
  <2>3. request' = [request EXCEPT ![r] = row]
    BY <2>1, <2>2
  <2> QED BY <1>1, <2>3, CallAssumption
<1>3. nonces' = Kept \cup {r}
  BY DEF Take
<1> HIDE DEF row
<1> QED BY <1>1, <1>2, <1>3 DEF StoreInv, NoncesSent, NoncesOfTaken, Sent, Seen, Kept

LEMMA RepeatStores ==
  ASSUME StoreInv, NEW r \in Requests, Repeat(r)
  PROVE  StoreInv'
<1> DEFINE row == [request[r] EXCEPT !.copies = @ + 1]
<1>1. row \in RequestRows /\ row.age = request[r].age /\ row.taken = request[r].taken
  BY Numbers DEF RequestRows, Repeat
<1>2. request' = [request EXCEPT ![r] = row] /\ row # NULL /\ faults' \in 0..MaxFaults
  BY <1>1, CallAssumption DEF Repeat, StoreInv
<1> HIDE DEF row
<1> QED BY <1>1, <1>2 DEF StoreInv, NoncesSent, NoncesOfTaken, Sent, Seen, Repeat

\* Older requests; those whose window is over are in no comparison any more.
LEMMA TimeStores ==
  ASSUME StoreInv, TimePasses
  PROVE  StoreInv'
<1>1. UNCHANGED <<nonces, lead, faults>> /\ request' = [r \in Requests |-> Older(r)]
  BY DEF TimePasses
<1>2. ASSUME NEW r \in Requests
      PROVE  /\ Older(r) \in RequestRows \cup {NULL} /\ (Older(r) # NULL <=> Sent(r))
             /\ Sent(r) => \/ Older(r).age = request[r].age + 1 /\ Older(r).taken = request[r].taken
                           \/ Older(r).age = MaxAge
  <2>1. CASE ~ Sent(r)
    BY <2>1 DEF Older
  <2>2. CASE Sent(r)
    <3>1. /\ [request[r] EXCEPT !.age = @ + 1] \in RequestRows
          /\ [age |-> MaxAge, copies |-> 0, taken |-> 0] \in RequestRows
          /\ [request[r] EXCEPT !.age = @ + 1].age = request[r].age + 1
          /\ [request[r] EXCEPT !.age = @ + 1].taken = request[r].taken
      BY <2>2, Numbers DEF RequestRows
    <3>2. \/ Older(r) = [request[r] EXCEPT !.age = @ + 1]
          \/ Older(r) = [age |-> MaxAge, copies |-> 0, taken |-> 0]
      BY <2>2 DEF Older
    <3>3. [age |-> MaxAge, copies |-> 0, taken |-> 0].age = MaxAge
      OBVIOUS
    <3>4. NULL \notin RequestRows
      BY CallAssumption
    <3>5. CASE Older(r) = [request[r] EXCEPT !.age = @ + 1]
      <4>1. Older(r).age = request[r].age + 1 /\ Older(r).taken = request[r].taken /\ Older(r) \in RequestRows
        BY <3>1, <3>5
      <4> QED BY <2>2, <3>4, <4>1
    <3>6. CASE Older(r) = [age |-> MaxAge, copies |-> 0, taken |-> 0]
      <4>1. Older(r).age = MaxAge /\ Older(r) \in RequestRows
        BY <3>1, <3>3, <3>6
      <4> QED BY <2>2, <3>4, <4>1
    <3> QED BY <3>2, <3>5, <3>6
  <2> QED BY <2>1, <2>2
<1>3. request' \in [Requests -> RequestRows \cup {NULL}]
  BY <1>1, <1>2
<1>4. \A r \in Requests : Sent(r)' <=> Sent(r)
  BY <1>1, <1>2 DEF Sent
<1>5. NoncesOfTaken'
  <2> SUFFICES ASSUME NEW r \in Requests, Sent(r), request'[r].age + lead < RequestAge
               PROVE  r \in nonces <=> request'[r].taken > 0
    BY <1>1, <1>4 DEF NoncesOfTaken, Seen
  <2>1. request'[r].age = request[r].age + 1 /\ request'[r].taken = request[r].taken
    BY <1>1, <1>2, Numbers
  <2> QED BY <2>1, Numbers DEF StoreInv, NoncesOfTaken, Seen
<1> QED BY <1>1, <1>3, <1>4, <1>5 DEF StoreInv, NoncesSent

LEMMA RestartHolds ==
  ASSUME IInv, Restart
  PROVE  IInv'
<1>1. JobsInv /\ StoreInv /\ SentOnce
  BY Parts
<1>2. ASSUME NEW j \in Jobs
      PROVE  JobOk(job'[j]) /\ job'[j].attempt = job[j].attempt /\ job'[j].phase = job[j].phase
  <2> DEFINE row == [job[j] EXCEPT !.services = 0]
  <2>1. JobOk(row) /\ row.attempt = job[j].attempt /\ row.phase = job[j].phase
    BY <1>1 DEF JobsInv, JobOk, JobRows
  <2>2. job'[j] = row
    BY DEF Restart
  <2> HIDE DEF row
  <2> QED BY <2>1, <2>2
<1>3. JobsInv'
  <2>1. job' = [j \in Jobs |-> job'[j]]
    BY DEF Restart
  <2>2. job' \in [Jobs -> JobRows]
    BY <1>2, <2>1 DEF JobOk
  <2> QED BY <1>2, <2>2 DEF JobsInv, JobOk
<1>4. ASSUME NEW r \in Requests
      PROVE  /\ request'[r] \in RequestRows \cup {NULL} /\ (request'[r] # NULL <=> Sent(r))
             /\ Sent(r) => request'[r].taken = 0
  <2>1. request'[r] = Forgotten(r)
    BY DEF Restart
  <2>2. CASE Sent(r)
    <3>1. [request[r] EXCEPT !.taken = 0] \in RequestRows /\ [request[r] EXCEPT !.taken = 0].taken = 0
      BY <1>1, <2>2, Numbers DEF RequestRows
    <3>2. request'[r] = [request[r] EXCEPT !.taken = 0]
      BY <2>1, <2>2 DEF Forgotten
    <3> QED BY <2>2, <3>1, <3>2, CallAssumption
  <2>3. CASE ~ Sent(r)
    BY <2>1, <2>3 DEF Forgotten
  <2> QED BY <2>2, <2>3
<1>5. /\ request' \in [Requests -> RequestRows \cup {NULL}] /\ nonces' = {} /\ lead' = lead
      /\ faults' \in 0..MaxFaults
  <2>1. request' = [r \in Requests |-> request'[r]]
    BY DEF Restart
  <2> QED BY <1>1, <1>4, <2>1, CallAssumption DEF Restart, StoreInv
<1>6. NoncesSent' /\ NoncesOfTaken'
  BY <1>4, <1>5 DEF NoncesSent, NoncesOfTaken, Sent
<1>7. SentOnce'
  <2> SUFFICES ASSUME NEW r \in Requests, Sent(r)'
               PROVE  (r[2] < job[r[1]].attempt \/ (r[2] = job[r[1]].attempt /\ Phase(r[1]) # "slot"))'
    BY DEF SentOnce
  <2>1. r[1] \in Jobs
    BY DEF Requests
  <2>2. Sent(r)
    BY <1>4 DEF Sent
  <2> QED BY <1>1, <1>2, <2>1, <2>2 DEF SentOnce, Phase
<1> QED BY <1>1, <1>3, <1>5, <1>6, <1>7, PartsAfter DEF StoreInv

-----------------------------------------------------------------------------
(* No attempt is sent twice: attempts only grow, and with them a job takes a  *)
(* slot; a request is new when its job leaves the slot.                       *)
LEMMA NewRequest ==
  ASSUME IInv, NEW j \in Jobs, Phase(j) = "slot"
  PROVE  ~ Sent(Current(j))
<1>1. Current(j) \in Requests /\ Current(j)[1] = j /\ Current(j)[2] = job[j].attempt /\ job[j].attempt \in Int
  BY CurrentIsRequest DEF Current, IInv, AttemptsCounted
<1> QED BY <1>1 DEF IInv, SentOnce

\* Steps that send nothing.
LEMMA NothingSent ==
  ASSUME SentOnce, JobsInv, \A r \in Requests : Sent(r)' => Sent(r),
         \A j \in Jobs : \/ job'[j].attempt = job[j].attempt /\ (Phase(j)' = "slot" => Phase(j) = "slot")
                         \/ job'[j].attempt = job[j].attempt + 1
  PROVE  SentOnce'
<1> SUFFICES ASSUME NEW r \in Requests, Sent(r)'
             PROVE  (r[2] < job[r[1]].attempt \/ (r[2] = job[r[1]].attempt /\ Phase(r[1]) # "slot"))'
  BY DEF SentOnce
<1>1. r[1] \in Jobs /\ r[2] \in Int /\ job[r[1]].attempt \in Int /\ Sent(r)
  BY CallAssumption DEF Requests, JobsInv, JobOk, JobRows
<1> QED BY <1>1 DEF SentOnce

LEMMA CallHolds ==
  ASSUME IInv, NEW j \in Jobs, Call(j)
  PROVE  IInv'
<1>1. JobsInv /\ StoreInv /\ SentOnce /\ Phase(j) = "slot" /\ ~ Sent(Current(j))
  BY Parts, NewRequest DEF Call
<1> DEFINE row == [job[j] EXCEPT !.phase = "calling", !.said = NULL]
<1>2. row \in JobRows /\ row.phase = "calling" /\ row.attempt = job[j].attempt /\ row.reply = NULL
  BY <1>1, CallAssumption DEF Phase, JobsInv, JobOk, JobRows
<1>3. job' = [job EXCEPT ![j] = row]
  BY DEF Call
<1> HIDE DEF row
<1>4. JobOk(row)
  BY <1>1, <1>2, CallAssumption DEF JobsInv, JobOk, Phase, Replies
<1>5. JobsInv'
  BY <1>1, <1>3, <1>4, OneJob
<1>6. StoreInv'
  BY <1>1, CallStores
<1>7. SentOnce'
  <2> SUFFICES ASSUME NEW r \in Requests, Sent(r)'
               PROVE  (r[2] < job[r[1]].attempt \/ (r[2] = job[r[1]].attempt /\ Phase(r[1]) # "slot"))'
    BY DEF SentOnce
  <2>1. r[1] \in Jobs /\ job \in [Jobs -> JobRows]
    BY <1>1 DEF Requests, JobsInv
  <2>2. /\ job'[j].attempt = job[j].attempt /\ Phase(j)' = "calling"
        /\ \A i \in Jobs \ {j} : job'[i] = job[i]
    BY <1>2, <1>3, <2>1 DEF Phase
  <2>3. CASE r = Current(j)
    BY <2>2, <2>3 DEF Current
  <2>4. CASE r # Current(j)
    <3>1. Sent(r)
      BY <2>4 DEF Call, Sent
    <3> QED BY <1>1, <2>1, <2>2, <3>1 DEF SentOnce, Phase
  <2> QED BY <2>3, <2>4
<1> QED BY <1>5, <1>6, <1>7, PartsAfter

LEMMA WorkerHolds ==
  ASSUME IInv, NEW j \in Jobs, Worker(j)
  PROVE  IInv'
<1>1. JobsInv /\ StoreInv /\ SentOnce /\ job \in [Jobs -> JobRows]
  BY Parts DEF JobsInv
<1>2. CASE Fetch(j)
  <2>1. StoreInv' /\ JobsInv'
    BY <1>1, <1>2, FetchHolds, StoreStands DEF Fetch
  <2>2. job'[j].attempt = job[j].attempt + 1 /\ \A i \in Jobs \ {j} : job'[i] = job[i]
    BY <1>1, <1>2 DEF Fetch, JobRows
  <2>3. \A r \in Requests : Sent(r)' => Sent(r)
    BY <1>2 DEF Fetch, Sent
  <2>4. SentOnce'
    BY <1>1, <2>2, <2>3, NothingSent DEF Phase
  <2> QED BY <2>1, <2>4, PartsAfter
<1>3. CASE Call(j)
  BY <1>3, CallHolds
<1>4. ASSUME NEW result \in Verdicts \cup {"retryable"}, Phase(j) = "calling", Settle(j, result),
             result \in Verdicts => result = job[j].said
      PROVE  IInv'
  <2>1. StoreInv' /\ JobsInv'
    BY <1>1, <1>4, SettleHolds, StoreStands DEF Settle
  <2>2. /\ job'[j].attempt = job[j].attempt /\ Phase(j)' \in {"ended", "queued"}
        /\ \A i \in Jobs \ {j} : job'[i] = job[i]
    BY <1>1, <1>4 DEF Settle, JobRows, Phase
  <2>3. \A r \in Requests : Sent(r)' => Sent(r)
    BY <1>4 DEF Settle, Sent
  <2>4. SentOnce'
    BY <1>1, <2>2, <2>3, NothingSent DEF Phase
  <2> QED BY <2>1, <2>4, PartsAfter
<1>5. CASE GiveUp(j) \/ Breaks(j)
  BY <1>4, <1>5, CallAssumption DEF GiveUp, Breaks
<1>6. CASE Receive(j)
  <2>1. /\ Meaning(job[j].reply) \in Verdicts \cup {"retryable"}
        /\ Meaning(job[j].reply) \in Verdicts => Meaning(job[j].reply) = job[j].said
    BY <1>1, CallAssumption DEF Meaning, JobsInv, JobOk
  <2> QED BY <1>4, <1>6, <2>1 DEF Receive
<1> QED BY <1>2, <1>3, <1>5, <1>6 DEF Worker

LEMMA ServiceKeeps ==
  ASSUME IInv, NEW j \in Jobs, Service(j)
  PROVE  IInv'
<1>1. JobsInv /\ StoreInv /\ SentOnce /\ job \in [Jobs -> JobRows]
  BY Parts DEF JobsInv
<1>2. UNCHANGED <<request, nonces, lead, faults>>
  BY DEF Service, Answer, Falters
<1>3. \A i \in Jobs : job'[i].attempt = job[i].attempt /\ Phase(i)' = Phase(i)
  <2>1. ASSUME NEW verdict \in Verdicts, Answer(j, verdict)
        PROVE  \A i \in Jobs : job'[i].attempt = job[i].attempt /\ Phase(i)' = Phase(i)
    BY <1>1, <2>1 DEF Answer, JobRows, Phase
  <2>2. CASE Falters(j)
    BY <1>1, <2>2 DEF Falters, JobRows, Phase
  <2> QED BY <2>1, <2>2 DEF Service
<1>4. SentOnce'
  BY <1>1, <1>2, <1>3, NothingSent DEF Sent
<1> QED BY <1>1, <1>2, <1>4, ServiceHolds, StoreStands, PartsAfter

\* What the endpoint does with a copy: it replies or starts a service, and
\* takes the request or does not.
LEMMA EndpointParts ==
  ASSUME NEW r \in Requests, Endpoint(r)
  PROVE  /\ Sent(r) /\ request[r].copies > 0 /\ UNCHANGED <<lead, faults>>
         /\ \/ request' = Consumed(r) /\ nonces' \in {nonces, Kept}
            \/ Take(r)
         /\ \/ \E status \in {"401", "retryable"} : Reply(r, status)
            \/ Admit(r)
BY DEF Endpoint, TooLarge, Unverified, Refuse, Malformed, Admit, Arrives

LEMMA EndpointHolds ==
  ASSUME IInv, NEW r \in Requests, Endpoint(r)
  PROVE  IInv'
<1>1. JobsInv /\ StoreInv /\ SentOnce /\ job \in [Jobs -> JobRows]
  BY Parts DEF JobsInv
<1>2. StoreInv'
  BY <1>1, EndpointParts, RefusalStores, TakingStores
<1>3. r[1] \in Jobs
  BY DEF Requests
<1>4. JobsInv'
  <2>1. CASE \E status \in {"401", "retryable"} : Reply(r, status)
    BY <1>1, <2>1, ReplyHolds
  <2>2. CASE Admit(r) /\ Calling(r)
    <3> DEFINE row == [job[r[1]] EXCEPT !.services = @ + 1]
    <3>1. JobOk(row)
      BY <1>1, <1>3, <2>2 DEF Calling, Phase, JobsInv, JobOk, JobRows
    <3> QED BY <1>1, <1>3, <2>2, <3>1, OneJob DEF Admit
  <2>3. CASE Admit(r) /\ ~ Calling(r)
    BY <1>1, <2>3 DEF Admit, JobsInv, JobOk
  <2> QED BY <2>1, <2>2, <2>3, EndpointParts
<1>5. \A i \in Jobs : job'[i].attempt = job[i].attempt /\ Phase(i)' = Phase(i)
  <2>1. CASE \E status \in {"401", "retryable"} : Reply(r, status)
    BY <1>1, <1>3, <2>1 DEF Reply, JobRows, Phase
  <2>2. CASE Admit(r)
    BY <1>1, <1>3, <2>2 DEF Admit, JobRows, Phase
  <2> QED BY <2>1, <2>2, EndpointParts
<1>6. \A s \in Requests : Sent(s)' => Sent(s)
  <2>0. request \in [Requests -> RequestRows \cup {NULL}]
    BY <1>1 DEF StoreInv
  <2>1. \A s \in Requests \ {r} : request'[s] = request[s]
    <3>1. CASE request' = Consumed(r)
      BY <2>0, <3>1 DEF Consumed
    <3>2. CASE Take(r)
      BY <2>0, <3>2 DEF Consumed, Take
    <3> QED BY <3>1, <3>2, EndpointParts
  <2> QED BY <2>1, EndpointParts DEF Sent
<1> QED BY <1>1, <1>2, <1>4, <1>5, <1>6, NothingSent, PartsAfter

LEMMA NextHolds ==
  ASSUME IInv, [Next]_vars
  PROVE  IInv'
<1>1. JobsInv /\ StoreInv /\ SentOnce
  BY Parts
<1>2. ASSUME NEW j \in Jobs, Worker(j) \/ Service(j)
      PROVE  IInv'
  BY <1>2, WorkerHolds, ServiceKeeps
<1>3. ASSUME NEW r \in Requests, Repeat(r)
      PROVE  IInv'
  <2>1. StoreInv'
    BY <1>1, <1>3, RepeatStores
  <2>2. JobsInv' /\ job' = job
    BY <1>1, <1>3 DEF Repeat, JobsInv, JobOk
  <2>3. \A s \in Requests : Sent(s)' => Sent(s)
    BY <1>3 DEF Repeat, Sent
  <2>4. SentOnce'
    BY <1>1, <2>2, <2>3, NothingSent DEF Phase
  <2> QED BY <2>1, <2>2, <2>4, PartsAfter
<1>4. ASSUME NEW r \in Requests, Endpoint(r)
      PROVE  IInv'
  BY <1>4, EndpointHolds
<1>5. CASE TimePasses
  <2>1. StoreInv'
    BY <1>1, <1>5, TimeStores
  <2>2. JobsInv' /\ job' = job
    BY <1>1, <1>5 DEF TimePasses, JobsInv, JobOk
  <2>3. \A s \in Requests : Sent(s)' => Sent(s)
    BY <1>5 DEF TimePasses, Older, Sent
  <2>4. SentOnce'
    BY <1>1, <2>2, <2>3, NothingSent DEF Phase
  <2> QED BY <2>1, <2>2, <2>4, PartsAfter
<1>6. CASE Restart
  BY <1>6, RestartHolds
<1>7. CASE UNCHANGED vars
  <2>1. JobsInv' /\ job' = job /\ request' = request
    BY <1>1, <1>7 DEF vars, JobsInv, JobOk
  <2>2. StoreInv' /\ SentOnce'
    BY <1>1, <1>7, <2>1, StoreStands, NothingSent DEF vars, Sent, Phase
  <2> QED BY <2>1, <2>2, PartsAfter
<1> QED BY <1>2, <1>3, <1>4, <1>5, <1>6, <1>7 DEF Next

\* The inductive invariant of the call.
THEOREM Invariant == Spec => []IInv
<1>1. Init => IInv
  BY InitHolds
<1>2. IInv /\ [Next]_vars => IInv'
  BY NextHolds
<1> QED BY <1>1, <1>2, PTL DEF Spec

\* The type invariant; no counter falls below zero.
THEOREM TypeCorrect == Spec => []TypeOK
<1>1. IInv => TypeOK
  BY DEF IInv
<1> QED BY <1>1, Invariant, PTL

\* A job ends with what a service said for its last request (VerdictOfService).
THEOREM VerdictsAreServices == Spec => []VerdictOfService
<1>1. IInv => VerdictOfService
  BY DEF IInv
<1> QED BY <1>1, Invariant, PTL

-----------------------------------------------------------------------------
(* What a nonce store may do, as properties of a step.                        *)

\* The requests whose taken grows.
LEMMA TakingIsNew ==
  ASSUME IInv, Next, NEW r \in Requests, Sent(r), request[r].taken > 0,
         request'[r].taken > request[r].taken
  PROVE  Seen(r) = RequestAge
<1>1. StoreInv /\ SentOnce /\ request \in [Requests -> RequestRows \cup {NULL}]
  BY Parts DEF StoreInv
<1>2. PICK a, c, t \in Nat : request[r] = [age |-> a, copies |-> c, taken |-> t]
  BY <1>1, Numbers DEF RequestRows
<1>3. ASSUME NEW s \in Requests, Take(s), Timely(s), ~ Refused(s)
      PROVE  Seen(r) = RequestAge
  <2>1. request' = [[request EXCEPT ![s].copies = @ - 1] EXCEPT ![s].taken = @ + 1]
    BY <1>3 DEF Take, Consumed
  <2>2. s = r
    BY <1>1, <1>2, <2>1
  <2>3. Seen(r) \in Int /\ Seen(r) <= RequestAge
    BY <1>1, <1>3, <2>2, Numbers DEF Timely
  <2>4. ~ (Seen(r) < RequestAge)
    BY <1>1, <1>3, <2>2 DEF StoreInv, NoncesOfTaken, Refused, Kept, Nonce
  <2> QED BY <1>1, <2>3, <2>4, Numbers
<1>4. ASSUME NEW s \in Requests, request' = Consumed(s) \/ request' = [request EXCEPT ![s].copies = @ + 1]
      PROVE  FALSE
  BY <1>1, <1>2, <1>4 DEF Consumed
<1>5. request' # request
  BY <1>2
<1>6. ASSUME NEW j \in Jobs, Worker(j) \/ Service(j) PROVE FALSE
  <2>1. CASE Call(j)
    <3>1. Current(j) # r /\ request'[r] = request[r]
      BY <2>1, NewRequest DEF Call
    <3> QED BY <1>2, <3>1
  <2>2. CASE ~ Call(j)
    BY <1>5, <1>6, <2>2 DEF Worker, Service, Fetch, GiveUp, Breaks, Receive, Settle, Answer, Falters
  <2> QED BY <2>1, <2>2
<1>7. ASSUME NEW s \in Requests, Repeat(s) \/ Endpoint(s) PROVE Seen(r) = RequestAge
  BY <1>3, <1>4, <1>7 DEF Repeat, Endpoint, TooLarge, Unverified, Refuse, Malformed, Admit
<1>8. CASE TimePasses
  <2>1. request'[r] = Older(r)
    BY <1>8 DEF TimePasses
  <2>2. \/ Older(r) = [request[r] EXCEPT !.age = @ + 1]
        \/ Older(r) = [age |-> MaxAge, copies |-> 0, taken |-> 0]
    BY DEF Older
  <2> QED BY <1>2, <2>1, <2>2
<1>9. CASE Restart
  <2>1. request'[r] = [request[r] EXCEPT !.taken = 0]
    BY <1>9 DEF Restart, Forgotten
  <2> QED BY <1>2, <2>1
<1> QED BY <1>6, <1>7, <1>8, <1>9 DEF Next

\* A provisioner that was not restarted takes a request twice only at the
\* second at which its window closes (TakenOnce).
THEOREM RequestsAreTakenOnce == Spec => TakenOnce
<1>1. IInv /\ [Next]_vars =>
        [\A r \in Requests : Sent(r) /\ request[r].taken > 0
           /\ request'[r].taken > request[r].taken => Seen(r) = RequestAge]_vars
  BY TakingIsNew
<1> QED BY <1>1, Invariant, PTL DEF Spec, TakenOnce

\* What the store keeps are the requests that were taken within their window.
LEMMA KeptAreTaken ==
  ASSUME IInv
  PROVE  Kept = Taken
BY DEF IInv, NoncesSent, NoncesOfTaken, TypeOK, Kept, Taken

LEMMA RefusalIsJustified ==
  ASSUME IInv, Next, NEW j \in Jobs, job[j].reply # "401", job'[j].reply = "401"
  PROVE  ~ Timely(Current(j)) \/ Current(j) \in Taken \/ Cardinality(Taken) >= MaxEntries
<1>1. JobsInv /\ StoreInv /\ job \in [Jobs -> JobRows] /\ "401" \notin Verdicts \cup {NULL, "retryable"}
  BY Parts, CallAssumption DEF JobsInv, Replies
<1>2. job'[j] # job[j]
  OBVIOUS
<1>3. ASSUME NEW i \in Jobs, Worker(i) \/ Service(i) PROVE FALSE
  <2>1. i = j
    BY <1>1, <1>2, <1>3 DEF Worker, Service, Fetch, Call, GiveUp, Breaks, Receive, Settle, Answer, Falters
  <2>2. CASE Fetch(j) \/ Call(j)
    BY <1>1, <2>2 DEF Fetch, Call, JobRows
  <2>3. CASE GiveUp(j) \/ Breaks(j) \/ Receive(j)
    BY <1>1, <2>3 DEF GiveUp, Breaks, Receive, Settle, JobRows
  <2>4. CASE Service(j)
    BY <1>1, <2>4 DEF Service, Answer, Falters, JobRows
  <2> QED BY <1>3, <2>1, <2>2, <2>3, <2>4 DEF Worker
<1>4. ASSUME NEW r \in Requests, Endpoint(r)
      PROVE  ~ Timely(Current(j)) \/ Current(j) \in Taken \/ Cardinality(Taken) >= MaxEntries
  <2>1. Calling(r) /\ r[1] = j /\ Current(j) = r
    BY <1>1, <1>2, <1>4 DEF Endpoint, TooLarge, Unverified, Refuse, Malformed, Admit, Reply, Calling
  <2>2. ~ (TooLarge(r) \/ Malformed(r) \/ Admit(r))
    BY <1>1, <2>1 DEF TooLarge, Malformed, Admit, Reply, JobRows
  <2>3. CASE Unverified(r)
    BY <2>1, <2>3 DEF Unverified
  <2>4. CASE Refuse(r)
    <3>1. (\E s \in Taken : s = r) \/ Cardinality(Taken) >= MaxEntries
      BY <2>4, KeptAreTaken DEF Refuse, Refused, Nonce
    <3> QED BY <2>1, <3>1
  <2> QED BY <1>4, <2>2, <2>3, <2>4 DEF Endpoint
<1>5. CASE Restart
  BY <1>1, <1>5 DEF Restart, JobRows
<1>6. CASE TimePasses \/ \E r \in Requests : Repeat(r)
  BY <1>2, <1>6 DEF TimePasses, Repeat
<1> QED BY <1>3, <1>4, <1>5, <1>6 DEF Next

\* A refusal has one of its three reasons (RetryIsNoReplay).
THEOREM RetriesAreNoReplays == Spec => RetryIsNoReplay
<1>1. IInv /\ [Next]_vars =>
        [\A j \in Jobs : job[j].reply # "401" /\ job'[j].reply = "401" =>
           ~ Timely(Current(j)) \/ Current(j) \in Taken \/ Cardinality(Taken) >= MaxEntries]_vars
  BY RefusalIsJustified
<1> QED BY <1>1, Invariant, PTL DEF Spec, RetryIsNoReplay

-----------------------------------------------------------------------------
(* The refinement of RemoteValidation. *)

\* What the worker sees of a job.
SeenOf(row) ==
  [phase |-> CASE row.phase \in {"queued", "slot"} -> "open"
               [] row.phase = "calling" -> "running"
               [] row.phase = "ended" -> "ended",
   attempts |-> IF row.phase = "slot" THEN row.attempt - 1 ELSE row.attempt,
   verdict |-> row.said, result |-> row.result]

LEMMA SeenIsOfJob == ValidationSeen = [j \in Jobs |-> SeenOf(job[j])]
BY DEF ValidationSeen, PhaseSeen, AttemptsSeen, Phase, SeenOf

\* A job whose seen parts stay looks the same.
LEMMA SameSeen ==
  ASSUME NEW row, NEW after, after.phase = row.phase, after.attempt = row.attempt,
         after.said = row.said, after.result = row.result
  PROVE  SeenOf(after) = SeenOf(row)
BY DEF SeenOf

LEMMA OneSeen ==
  ASSUME job \in [Jobs -> JobRows], NEW j \in Jobs, NEW row, job' = [job EXCEPT ![j] = row]
  PROVE  ValidationSeen' = [ValidationSeen EXCEPT ![j] = SeenOf(row)]
<1>1. ValidationSeen' = [i \in Jobs |-> SeenOf(job'[i])]
  BY DEF ValidationSeen, PhaseSeen, AttemptsSeen, Phase, SeenOf
<1>2. job' = [i \in Jobs |-> IF i = j THEN row ELSE job[i]]
  OBVIOUS
<1>3. [ValidationSeen EXCEPT ![j] = SeenOf(row)]
        = [i \in Jobs |-> IF i = j THEN SeenOf(row) ELSE SeenOf(job[i])]
  BY SeenIsOfJob
<1> QED BY <1>1, <1>2, <1>3

LEMMA UnseenStep ==
  ASSUME job \in [Jobs -> JobRows], NEW j \in Jobs, NEW row, job' = [job EXCEPT ![j] = row],
         SeenOf(row) = SeenOf(job[j])
  PROVE  UNCHANGED ValidationSeen
<1>1. ValidationSeen' = [ValidationSeen EXCEPT ![j] = SeenOf(job[j])]
  BY OneSeen
<1> QED BY <1>1, SeenIsOfJob

\* A call begins an attempt.
LEMMA CallBegins ==
  ASSUME JobsInv, NEW j \in Jobs, Call(j)
  PROVE  Remote!Begin(j)
<1>1. job[j] \in JobRows /\ job[j].phase = "slot" /\ job[j].attempt \in 1..MaxAttempts
  BY DEF JobsInv, JobOk, Call, Phase
<1> DEFINE row == [job[j] EXCEPT !.phase = "calling", !.said = NULL]
<1>2. SeenOf(job[j]) = [phase |-> "open", attempts |-> job[j].attempt - 1,
                        verdict |-> job[j].said, result |-> job[j].result]
  BY <1>1 DEF SeenOf
<1>3. SeenOf(row) = [phase |-> "running", attempts |-> job[j].attempt,
                     verdict |-> NULL, result |-> job[j].result]
  BY <1>1 DEF SeenOf, JobRows
<1>4. job[j].attempt \in Int /\ MaxAttempts \in Int /\ job[j].attempt - 1 + 1 = job[j].attempt
      /\ job[j].attempt - 1 < MaxAttempts
  BY <1>1, CallAssumption
<1>5. ValidationSeen' = [ValidationSeen EXCEPT ![j] = SeenOf(row)]
  BY OneSeen DEF JobsInv, Call
<1>6. ValidationSeen[j] = SeenOf(job[j])
  BY SeenIsOfJob
<1> HIDE DEF row
<1>7. SeenOf(row) = [phase |-> "running", attempts |-> ValidationSeen[j].attempts + 1,
                     verdict |-> NULL, result |-> ValidationSeen[j].result]
  BY <1>2, <1>3, <1>4, <1>6
<1> QED BY <1>2, <1>4, <1>5, <1>6, <1>7 DEF Remote!Begin, Remote!Phase

\* A result ends the attempt, with the verdict that was reached if it is one.
LEMMA SettleEnds ==
  ASSUME JobsInv, NEW j \in Jobs, Phase(j) = "calling", NEW result \in Verdicts \cup {"retryable"},
         result \in Verdicts => result = job[j].said, Settle(j, result)
  PROVE  Remote!Conclude(j) \/ Remote!Fail(j)
<1>1. job[j] \in JobRows /\ job[j].phase = "calling" /\ NULL \notin Verdicts
  BY CallAssumption DEF JobsInv, Phase, Replies
<1>2. PICK phase : phase = IF result \in Verdicts \/ job[j].attempt = MaxAttempts THEN "ended" ELSE "queued"
  OBVIOUS
<1> DEFINE row == [job[j] EXCEPT !.phase = phase, !.result = result, !.services = 0, !.reply = NULL]
<1>3. SeenOf(job[j]) = [phase |-> "running", attempts |-> job[j].attempt,
                        verdict |-> job[j].said, result |-> job[j].result]
  BY <1>1 DEF SeenOf
<1>4. SeenOf(row) = [phase |-> IF phase = "ended" THEN "ended" ELSE "open", attempts |-> job[j].attempt,
                     verdict |-> job[j].said, result |-> result]
  BY <1>1, <1>2 DEF SeenOf, JobRows
<1>5. ValidationSeen' = [ValidationSeen EXCEPT ![j] = SeenOf(row)]
  <2>1. job' = [job EXCEPT ![j] = row]
    BY <1>2 DEF Settle
  <2> HIDE DEF row
  <2> QED BY <2>1, OneSeen DEF JobsInv
<1>6. ValidationSeen[j] = SeenOf(job[j])
  BY SeenIsOfJob
<1> HIDE DEF row
<1>7. CASE result \in Verdicts
  <2>1. SeenOf(row) = [phase |-> "ended", attempts |-> ValidationSeen[j].attempts,
                       verdict |-> ValidationSeen[j].verdict, result |-> ValidationSeen[j].verdict]
    BY <1>2, <1>3, <1>4, <1>6, <1>7
  <2>2. job[j].said # NULL
    BY <1>1, <1>7
  <2> QED BY <1>3, <1>5, <1>6, <2>1, <2>2 DEF Remote!Conclude, Remote!End, Remote!Phase
<1>8. CASE result \notin Verdicts
  <2>1. SeenOf(row) =
          [phase |-> IF ValidationSeen[j].attempts = MaxAttempts THEN "ended" ELSE "open",
           attempts |-> ValidationSeen[j].attempts, verdict |-> ValidationSeen[j].verdict,
           result |-> "retryable"]
    BY <1>2, <1>3, <1>4, <1>6, <1>8
  <2> QED BY <1>3, <1>5, <1>6, <2>1 DEF Remote!Fail, Remote!End, Remote!Phase
<1> QED BY <1>7, <1>8

\* What the endpoint and the services do is not seen until a verdict is.
LEMMA ServiceReaches ==
  ASSUME JobsInv, NEW j \in Jobs, Service(j)
  PROVE  UNCHANGED ValidationSeen \/ \E verdict \in Verdicts : Remote!Reach(j, verdict)
<1>0. job[j] \in JobRows /\ (job[j].services > 0 => job[j].phase = "calling")
  BY DEF JobsInv, JobOk, JobRows
<1>1. ASSUME NEW verdict \in Verdicts, Answer(j, verdict) PROVE Remote!Reach(j, verdict)
  <2> DEFINE row == [job[j] EXCEPT !.services = @ - 1, !.said = verdict, !.reply = verdict]
  <2>1. SeenOf(job[j]) = [phase |-> "running", attempts |-> job[j].attempt,
                          verdict |-> job[j].said, result |-> job[j].result]
    BY <1>0, <1>1 DEF Answer, SeenOf
  <2>2. SeenOf(row) = [phase |-> "running", attempts |-> job[j].attempt,
                       verdict |-> verdict, result |-> job[j].result]
    BY <1>0, <1>1 DEF Answer, SeenOf, JobRows
  <2>3. ValidationSeen' = [ValidationSeen EXCEPT ![j] = SeenOf(row)]
    BY <1>1, OneSeen DEF JobsInv, Answer
  <2>4. ValidationSeen[j] = SeenOf(job[j])
    BY SeenIsOfJob
  <2> HIDE DEF row
  <2>5. SeenOf(row) = [ValidationSeen[j] EXCEPT !.verdict = verdict]
    BY <2>1, <2>2, <2>4
  <2> QED BY <2>1, <2>3, <2>4, <2>5 DEF Remote!Reach, Remote!Phase
<1>2. ASSUME Falters(j) PROVE UNCHANGED ValidationSeen
  <2> DEFINE row == [job[j] EXCEPT !.services = @ - 1, !.reply = "retryable"]
  <2>1. SeenOf(row) = SeenOf(job[j])
    BY <1>0, SameSeen DEF JobRows
  <2> QED BY <1>2, <2>1, UnseenStep DEF JobsInv, Falters
<1> QED BY <1>1, <1>2 DEF Service

LEMMA EndpointIsUnseen ==
  ASSUME JobsInv, NEW r \in Requests, Endpoint(r)
  PROVE  UNCHANGED ValidationSeen
<1>0. r[1] \in Jobs /\ job[r[1]] \in JobRows
  BY DEF JobsInv, Requests
<1>1. ASSUME job' = job PROVE UNCHANGED ValidationSeen
  BY <1>1, SeenIsOfJob DEF ValidationSeen, PhaseSeen, AttemptsSeen, Phase
<1>2. ASSUME NEW status, job' = [job EXCEPT ![r[1]].reply = status] PROVE UNCHANGED ValidationSeen
  <2> DEFINE row == [job[r[1]] EXCEPT !.reply = status]
  <2>1. SeenOf(row) = SeenOf(job[r[1]])
    BY <1>0, SameSeen DEF JobRows
  <2> QED BY <1>0, <1>2, <2>1, UnseenStep DEF JobsInv
<1>3. ASSUME job' = [job EXCEPT ![r[1]].services = @ + 1] PROVE UNCHANGED ValidationSeen
  <2> DEFINE row == [job[r[1]] EXCEPT !.services = @ + 1]
  <2>1. SeenOf(row) = SeenOf(job[r[1]])
    BY <1>0, SameSeen DEF JobRows
  <2> QED BY <1>0, <1>3, <2>1, UnseenStep DEF JobsInv
<1> QED BY <1>1, <1>2, <1>3 DEF Endpoint, TooLarge, Unverified, Refuse, Malformed, Admit, Reply

\* Every step of the protocol is one of the validation, or none.
LEMMA StepOfValidation ==
  ASSUME IInv, Next
  PROVE  [Remote!Next]_ValidationSeen
<1>0. JobsInv /\ job \in [Jobs -> JobRows]
  BY Parts DEF JobsInv
<1>1. ASSUME NEW j \in Jobs, Worker(j) PROVE [Remote!Next]_ValidationSeen
  <2>1. CASE Fetch(j)
    <3> DEFINE row == [job[j] EXCEPT !.phase = "slot", !.attempt = @ + 1]
    <3>1. job[j] \in JobRows /\ job[j].phase = "queued" /\ job[j].attempt \in Nat
      BY <1>0, <2>1, CallAssumption DEF Fetch, Phase, JobRows
    <3>2. SeenOf(row) = SeenOf(job[j])
      <4>1. row.phase = "slot" /\ row.attempt = job[j].attempt + 1 /\ row.said = job[j].said
            /\ row.result = job[j].result
        BY <3>1 DEF JobRows
      <4>2. job[j].attempt + 1 - 1 = job[j].attempt
        BY <3>1
      <4> HIDE DEF row
      <4> QED BY <3>1, <4>1, <4>2 DEF SeenOf
    <3> QED BY <1>0, <2>1, <3>2, UnseenStep DEF Fetch
  <2>2. CASE Call(j)
    BY <1>0, <2>2, CallBegins DEF Remote!Next
  <2>3. CASE GiveUp(j) \/ Breaks(j)
    <3>1. Phase(j) = "calling" /\ Settle(j, "retryable") /\ "retryable" \notin Verdicts
      BY <2>3, CallAssumption DEF GiveUp, Breaks
    <3> QED BY <1>0, <3>1, SettleEnds DEF Remote!Next
  <2>4. CASE Receive(j)
    <3>1. /\ Meaning(job[j].reply) \in Verdicts \cup {"retryable"}
          /\ Meaning(job[j].reply) \in Verdicts => Meaning(job[j].reply) = job[j].said
      BY <1>0, CallAssumption DEF Meaning, JobsInv, JobOk
    <3> QED BY <1>0, <2>4, <3>1, SettleEnds DEF Receive, Remote!Next
  <2> QED BY <1>1, <2>1, <2>2, <2>3, <2>4 DEF Worker
<1>2. ASSUME NEW j \in Jobs, Service(j) PROVE [Remote!Next]_ValidationSeen
  BY <1>0, <1>2, ServiceReaches DEF Remote!Next
<1>3. ASSUME NEW r \in Requests, Repeat(r) \/ Endpoint(r) PROVE UNCHANGED ValidationSeen
  BY <1>0, <1>3, EndpointIsUnseen DEF Repeat, ValidationSeen, PhaseSeen, AttemptsSeen, Phase
<1>4. CASE TimePasses
  BY <1>4 DEF TimePasses, ValidationSeen, PhaseSeen, AttemptsSeen, Phase
<1>5. CASE Restart
  <2>1. \A j \in Jobs : SeenOf([job[j] EXCEPT !.services = 0]) = SeenOf(job[j])
    <3> TAKE j \in Jobs
    <3>1. job[j] \in JobRows
      BY <1>0
    <3> QED BY <3>1, SameSeen DEF JobRows
  <2>2. ValidationSeen' = [j \in Jobs |-> SeenOf(job'[j])]
    BY DEF ValidationSeen, PhaseSeen, AttemptsSeen, Phase, SeenOf
  <2> QED BY <1>5, <2>1, <2>2, SeenIsOfJob DEF Restart
<1> QED BY <1>1, <1>2, <1>3, <1>4, <1>5 DEF Next

\* To the worker the provisioner, with its network, clock and restarts, is one
\* validation after another that ends with its own verdict or none.
THEOREM ProvisionerIsValidation == Spec => ImplementsValidation
<1>1. Init => Remote!Init
  <2> SUFFICES ASSUME Init PROVE ValidationSeen = [j \in Jobs |-> Remote!New]
    BY DEF Remote!Init
  <2>1. ASSUME NEW j \in Jobs PROVE SeenOf(job[j]) = Remote!New
    BY DEF Init, NewJob, SeenOf, Remote!New
  <2> QED BY <2>1, SeenIsOfJob
<1>2. IInv /\ [Next]_vars => [Remote!Next]_ValidationSeen
  <2>1. UNCHANGED vars => UNCHANGED ValidationSeen
    BY DEF vars, ValidationSeen, PhaseSeen, AttemptsSeen, Phase
  <2> QED BY <2>1, StepOfValidation
<1> QED BY <1>1, <1>2, Invariant, PTL DEF Spec, ImplementsValidation, Remote!Spec
-----------------------------------------------------------------------------
(* What EveryJobEnds rests on: no step of the protocol, fault or no fault,    *)
(* gives work back, and while work is left somebody can do a part of it.      *)

\* The request of the call that is under way was sent.
CallsSent == \A j \in Jobs : Phase(j) = "calling" => Sent(Current(j))

\* The worker's steps that are left of a job: three for each attempt.
Left(j) ==
  CASE Phase(j) = "queued" -> 3 * (MaxAttempts - job[j].attempt)
    [] Phase(j) = "slot" -> 3 * (MaxAttempts - job[j].attempt) + 2
    [] Phase(j) = "calling" -> 3 * (MaxAttempts - job[j].attempt) + 1
    [] Phase(j) = "ended" -> 0

LeftIsNumber == \A j \in Jobs : Left(j) \in Nat /\ (Phase(j) # "ended" => Left(j) > 0)

WorkIsDone ==
  \A j \in Jobs :
    \/ Phase(j)' = Phase(j) /\ Left(j)' = Left(j)
    \/ Left(j)' < Left(j)

\* A slot is free for it, a permit is, or its client's timer runs or has run
\* out.
CanGoOn(j) ==
  \/ Phase(j) = "queued" /\ FreeSlot
  \/ Phase(j) = "slot" /\ HasPermit(j)
  \/ /\ Phase(j) = "calling" /\ Sent(Current(j))
     /\ request[Current(j)].age >= ClientTimeout \/ request[Current(j)].age < MaxAge

SomebodyGoesOn == (\E j \in Jobs : Phase(j) # "ended") => \E j \in Jobs : CanGoOn(j)

LEMMA JobStep ==
  ASSUME IInv, Next, NEW j \in Jobs
  PROVE  \/ Phase(j)' = Phase(j) /\ job'[j].attempt = job[j].attempt
         \/ Fetch(j) \/ Call(j)
         \/ Phase(j) = "calling" /\ Phase(j)' \in {"queued", "ended"} /\ job'[j].attempt = job[j].attempt
<1>0. job \in [Jobs -> JobRows]
  BY DEF IInv, TypeOK
<1>1. ASSUME NEW i \in Jobs, Worker(i), i # j PROVE job'[j] = job[j]
  BY <1>0, <1>1 DEF Worker, Fetch, Call, GiveUp, Breaks, Receive, Settle
<1>2. ASSUME NEW result, Settle(j, result), Phase(j) = "calling"
      PROVE  Phase(j)' \in {"queued", "ended"} /\ job'[j].attempt = job[j].attempt
  BY <1>0, <1>2 DEF Settle, Phase, JobRows
<1>3. CASE Worker(j)
  BY <1>2, <1>3 DEF Worker, GiveUp, Breaks, Receive
<1>4. ASSUME NEW i \in Jobs, Service(i) PROVE Phase(j)' = Phase(j) /\ job'[j].attempt = job[j].attempt
  <2>1. job[i] \in JobRows
    BY <1>0
  <2>2. ASSUME NEW verdict, Answer(i, verdict)
        PROVE  Phase(j)' = Phase(j) /\ job'[j].attempt = job[j].attempt
    <3> DEFINE row == [job[i] EXCEPT !.services = @ - 1, !.said = verdict, !.reply = verdict]
    <3>1. row.phase = job[i].phase /\ row.attempt = job[i].attempt
      BY <2>1 DEF JobRows
    <3>2. job' = [job EXCEPT ![i] = row]
      BY <2>2 DEF Answer
    <3> HIDE DEF row
    <3> QED BY <1>0, <3>1, <3>2 DEF Phase
  <2>3. CASE Falters(i)
    <3> DEFINE row == [job[i] EXCEPT !.services = @ - 1, !.reply = "retryable"]
    <3>1. row.phase = job[i].phase /\ row.attempt = job[i].attempt
      BY <2>1 DEF JobRows
    <3>2. job' = [job EXCEPT ![i] = row]
      BY <2>3 DEF Falters
    <3> HIDE DEF row
    <3> QED BY <1>0, <3>1, <3>2 DEF Phase
  <2> QED BY <1>4, <2>2, <2>3 DEF Service
<1>5. ASSUME NEW r \in Requests, Repeat(r) \/ Endpoint(r)
      PROVE  Phase(j)' = Phase(j) /\ job'[j].attempt = job[j].attempt
  <2>1. job' = job \/ \E status : Reply(r, status) \/ job' = [job EXCEPT ![r[1]].services = @ + 1]
    BY <1>5 DEF Repeat, Endpoint, TooLarge, Unverified, Refuse, Malformed, Admit
  <2>2. r[1] \in Jobs /\ job[r[1]] \in JobRows
    BY <1>0 DEF Requests
  <2>3. ASSUME NEW row, job' = [job EXCEPT ![r[1]] = row], row.phase = job[r[1]].phase,
               row.attempt = job[r[1]].attempt
        PROVE  Phase(j)' = Phase(j) /\ job'[j].attempt = job[j].attempt
    BY <1>0, <2>2, <2>3 DEF Phase
  <2>4. ASSUME NEW status, Reply(r, status) PROVE Phase(j)' = Phase(j) /\ job'[j].attempt = job[j].attempt
    <3> DEFINE row == [job[r[1]] EXCEPT !.reply = status]
    <3>1. row.phase = job[r[1]].phase /\ row.attempt = job[r[1]].attempt
      BY <2>2 DEF JobRows
    <3> QED BY <2>3, <2>4, <3>1 DEF Reply, Phase
  <2>5. ASSUME job' = [job EXCEPT ![r[1]].services = @ + 1]
        PROVE  Phase(j)' = Phase(j) /\ job'[j].attempt = job[j].attempt
    <3> DEFINE row == [job[r[1]] EXCEPT !.services = @ + 1]
    <3>1. row.phase = job[r[1]].phase /\ row.attempt = job[r[1]].attempt
      BY <2>2 DEF JobRows
    <3> QED BY <2>3, <2>5, <3>1
  <2> QED BY <2>1, <2>4, <2>5 DEF Phase
<1>6. CASE TimePasses \/ Restart
  BY <1>0, <1>6 DEF TimePasses, Restart, Phase, JobRows
<1> QED BY <1>1, <1>3, <1>4, <1>5, <1>6 DEF Next, Phase

LEMMA SentStays ==
  ASSUME IInv, Next, NEW r \in Requests, Sent(r)
  PROVE  Sent(r)'
<1>0. request \in [Requests -> RequestRows \cup {NULL}] /\ request[r] \in RequestRows /\ NULL \notin RequestRows
  BY CallAssumption DEF IInv, TypeOK, Sent
<1>1. ASSUME NEW j \in Jobs, Worker(j) \/ Service(j) PROVE Sent(r)'
  <2>1. request' = request \/ Call(j)
    BY <1>1 DEF Worker, Service, Fetch, GiveUp, Breaks, Receive, Settle, Answer, Falters
  <2>2. CASE Call(j)
    <3>1. [age |-> 0, copies |-> 1, taken |-> 0] \in RequestRows
      BY DEF RequestRows
    <3> QED BY <1>0, <2>2, <3>1 DEF Call, Sent
  <2> QED BY <2>1, <2>2 DEF Sent
<1>2. ASSUME NEW s \in Requests, Repeat(s) \/ Endpoint(s) PROVE Sent(r)'
  <2>1. request[s] \in RequestRows /\ request[s].copies > 0
    BY <1>0, <1>2, EndpointParts DEF Repeat, Sent
  <2>2. /\ [request[s] EXCEPT !.copies = @ + 1] \in RequestRows
        /\ [request[s] EXCEPT !.copies = @ - 1] \in RequestRows
        /\ [[request[s] EXCEPT !.copies = @ - 1] EXCEPT !.taken = @ + 1] \in RequestRows
    <3>1. \A copies \in Nat : [request[s] EXCEPT !.copies = copies] \in RequestRows
      BY <2>1 DEF RequestRows
    <3>2. \A row \in RequestRows : [row EXCEPT !.taken = @ + 1] \in RequestRows
      BY DEF RequestRows
    <3>3. request[s].copies + 1 \in Nat /\ request[s].copies - 1 \in Nat
      BY <2>1 DEF RequestRows
    <3> QED BY <3>1, <3>2, <3>3
  <2>3. \/ request' = [request EXCEPT ![s] = [request[s] EXCEPT !.copies = @ + 1]]
        \/ request' = [request EXCEPT ![s] = [request[s] EXCEPT !.copies = @ - 1]]
        \/ request' = [request EXCEPT ![s] = [[request[s] EXCEPT !.copies = @ - 1] EXCEPT !.taken = @ + 1]]
    BY <1>0, <1>2, EndpointParts DEF Repeat, Consumed, Take
  <2> QED BY <1>0, <2>2, <2>3 DEF Sent
<1>3. CASE TimePasses
  <2>1. Older(r) \in RequestRows
    <3>1. MaxAge \in Nat
      BY CallAssumption DEF MaxAge, IInv, TypeOK
    <3> QED BY <1>0, <3>1 DEF Older, Sent, RequestRows
  <2> QED BY <1>0, <1>3, <2>1 DEF TimePasses, Sent
<1>4. CASE Restart
  <2>1. [request[r] EXCEPT !.taken = 0] \in RequestRows
    BY <1>0 DEF RequestRows
  <2> QED BY <1>0, <1>4, <2>1 DEF Restart, Forgotten, Sent
<1> QED BY <1>1, <1>2, <1>3, <1>4 DEF Next

\* A call that is under way has sent its request.
LEMMA CallsAreSent == Spec => []CallsSent
<1>1. Init => CallsSent
  BY DEF Init, CallsSent, Phase, NewJob
<1>2. IInv /\ CallsSent /\ [Next]_vars => CallsSent'
  <2>1. CASE UNCHANGED vars
    BY <2>1 DEF vars, CallsSent, Phase, Sent, Current
  <2>2. ASSUME IInv, CallsSent, Next, NEW j \in Jobs, Phase(j)' = "calling" PROVE Sent(Current(j))'
    <3>1. CASE Call(j)
      <4>1. /\ Current(j) \in Requests /\ NULL \notin RequestRows
            /\ [age |-> 0, copies |-> 1, taken |-> 0] \in RequestRows
        BY <2>2, <3>1, CurrentIsRequest, CallAssumption DEF Call, RequestRows
      <4>2. Current(j)' = Current(j)
        BY <2>2, <3>1 DEF Call, Current, IInv, TypeOK, JobRows
      <4> QED BY <2>2, <3>1, <4>1, <4>2 DEF Call, Sent, IInv, TypeOK
    <3>2. CASE Phase(j) = "calling" /\ job'[j].attempt = job[j].attempt
      <4>1. Current(j) \in Requests /\ Sent(Current(j)) /\ Current(j)' = Current(j)
        BY <2>2, <3>2, CurrentIsRequest DEF CallsSent, Current
      <4>2. \A r \in Requests : Sent(r) => Sent(r)'
        BY <2>2, SentStays
      <4> QED BY <4>1, <4>2 DEF Sent
    <3>3. ~ Fetch(j)
      BY <2>2 DEF Fetch, Phase, IInv, TypeOK, JobRows
    <3> QED BY <2>2, <3>1, <3>2, <3>3, JobStep
  <2> QED BY <2>1, <2>2 DEF CallsSent
<1> QED BY <1>1, <1>2, Invariant, PTL DEF Spec

LEMMA LeftCounts ==
  ASSUME IInv
  PROVE  LeftIsNumber
<1> SUFFICES ASSUME NEW j \in Jobs PROVE Left(j) \in Nat /\ (Phase(j) # "ended" => Left(j) > 0)
  BY DEF LeftIsNumber
<1>1. job[j].attempt \in 0..MaxAttempts /\ MaxAttempts \in Nat
      /\ Phase(j) \in {"queued", "slot", "calling", "ended"}
      /\ (Phase(j) = "queued" => job[j].attempt < MaxAttempts)
  BY CallAssumption DEF IInv, TypeOK, JobRows, AttemptsCounted, Phase
<1> QED BY <1>1 DEF Left

\* No step of the protocol, whatever fails, gives a job work back: at most
\* three steps of the worker for each attempt, then the job has ended.
THEOREM AttemptsRunOut == Spec => []LeftIsNumber /\ [][WorkIsDone]_vars
<1>1. IInv => LeftIsNumber
  BY LeftCounts
<1>2. ASSUME IInv, Next, NEW j \in Jobs
      PROVE  (Phase(j)' = Phase(j) /\ Left(j)' = Left(j)) \/ Left(j)' < Left(j)
  <2>1. /\ job[j].attempt \in Int /\ job'[j].attempt \in Int /\ MaxAttempts \in Int
        /\ job[j].attempt <= MaxAttempts
    BY <1>2, NextHolds, CallAssumption DEF IInv, TypeOK, JobRows
  <2>2. LeftIsNumber
    BY <1>2, LeftCounts
  <2>3. CASE Phase(j)' = Phase(j) /\ job'[j].attempt = job[j].attempt
    BY <2>3 DEF Left
  <2>4. CASE Fetch(j)
    <3>1. Phase(j) = "queued" /\ Phase(j)' = "slot" /\ job'[j].attempt = job[j].attempt + 1
      BY <1>2, <2>4 DEF Fetch, Phase, IInv, TypeOK, JobRows
    <3> QED BY <2>1, <3>1 DEF Left
  <2>5. CASE Call(j)
    <3>1. Phase(j) = "slot" /\ Phase(j)' = "calling" /\ job'[j].attempt = job[j].attempt
      BY <1>2, <2>5 DEF Call, Phase, IInv, TypeOK, JobRows
    <3> QED BY <2>1, <3>1 DEF Left
  <2>6. CASE Phase(j) = "calling" /\ Phase(j)' \in {"queued", "ended"} /\ job'[j].attempt = job[j].attempt
    BY <2>1, <2>6 DEF Left
  <2> QED BY <1>2, <2>3, <2>4, <2>5, <2>6, JobStep
<1>3. IInv /\ [Next]_vars => [WorkIsDone]_vars
  BY <1>2 DEF WorkIsDone
<1> QED BY <1>1, <1>3, Invariant, PTL DEF Spec

\* While a job has not ended, a slot or a permit that it waits for is free for
\* one of the jobs, or a call is under way whose timer ends it: jobs in slots
\* never wait for one another's permits alone.
THEOREM SomebodyCanGoOn == Spec => []SomebodyGoesOn
<1>1. ASSUME IInv, CallsSent, NEW j \in Jobs, Phase(j) # "ended" PROVE \E i \in Jobs : CanGoOn(i)
  <2>0. /\ Slots > 0 /\ GlobalLimit > 0 /\ OrgLimit > 0
        /\ {Slots, GlobalLimit, OrgLimit, ClientTimeout, RequestAge} \subseteq Nat
    BY CallAssumption
  <2>1. CASE \E i \in Jobs : Phase(i) = "calling"
    <3>1. PICK i \in Jobs : Phase(i) = "calling"
      BY <2>1
    <3>2. Current(i) \in Requests /\ Sent(Current(i))
      BY <1>1, <3>1, CurrentIsRequest DEF CallsSent
    <3>3. request[Current(i)].age \in Nat /\ lead \in Int
      BY <1>1, <3>2, CallAssumption DEF IInv, TypeOK, Sent, RequestRows
    <3>4. MaxAge \in Int /\ MaxAge >= ClientTimeout
      BY <2>0, <3>3 DEF MaxAge
    <3> QED BY <2>0, <3>1, <3>2, <3>3, <3>4 DEF CanGoOn
  <2>2. CASE ~ \E i \in Jobs : Phase(i) = "calling"
    <3>1. \A i \in Jobs : HasPermit(i)
      <4> TAKE i \in Jobs
      <4> DEFINE Active == {k \in Jobs : Phase(k) = "calling"}
      <4>1. Active = {} /\ {k \in Active : OrgOf[k] = OrgOf[i]} = {}
        BY <2>2
      <4> QED BY <2>0, <4>1, FS_EmptySet DEF HasPermit
    <3>2. CASE \E i \in Jobs : Phase(i) = "slot"
      BY <3>1, <3>2 DEF CanGoOn
    <3>3. CASE ~ \E i \in Jobs : Phase(i) = "slot"
      <4>1. {i \in Jobs : Phase(i) \in {"slot", "calling"}} = {}
        BY <2>2, <3>3
      <4>2. FreeSlot
        BY <2>0, <4>1, FS_EmptySet DEF FreeSlot
      <4>3. Phase(j) = "queued"
        BY <1>1, <2>2, <3>3 DEF IInv, TypeOK, JobRows, Phase
      <4> QED BY <4>2, <4>3 DEF CanGoOn
    <3> QED BY <3>2, <3>3
  <2> QED BY <2>1, <2>2
<1>2. IInv /\ CallsSent => SomebodyGoesOn
  BY <1>1 DEF SomebodyGoesOn
<1> QED BY <1>2, Invariant, CallsAreSent, PTL
=============================================================================
