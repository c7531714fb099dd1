---------------------------------- MODULE Video --------------------------------
(***************************************************************************)
(* Videos through a pool: POST /v1/videos/generations submits a job and    *)
(* GET /v1/videos/{id}?model=<model> polls it.  Each of the two is        *)
(* resolved on its own (wire.go, handleWire), and the provider that took   *)
(* the job is the only one that knows its id.                              *)
(***************************************************************************)
EXTENDS Rotation

CONSTANTS
    MaxJobs   \* bound on submitted jobs

VARIABLES
    jobs,   \* the jobs taken: of which model, by which provider
    answer  \* of the latest poll: the job, and whether its provider answered it

videoVars == <<vars, jobs, answer>>

VideoWire == "openai-videos"
OfVideos(ask) == ask.wire = VideoWire

VideoInit == Init /\ jobs = <<>> /\ answer = [job |-> 0, found |-> TRUE]

(* A POST: the loop of handleWire ends at one of the plan's targets, after *)
(* a failover over the ones before.                                        *)
Submit(ask) ==
    /\ OfVideos(ask) /\ Resolve(ask) /\ Len(jobs) < MaxJobs
    /\ \E k \in DOMAIN last'.plan.targets :
          jobs' = Append(jobs, [ask |-> ask, taker |-> last'.plan.targets[k].ref])
    /\ UNCHANGED answer

(* No target takes it, or there is none.                                   *)
SubmitFails(ask) ==
    /\ OfVideos(ask) /\ (Resolve(ask) \/ Unresolved(ask))
    /\ UNCHANGED <<jobs, answer>>

(* A GET: readIngress takes the model from the query, VideoHandler sends a *)
(* GET because there is no body, and a 404 is not retryable: the plan's    *)
(* first target answers, unless it cannot be reached.                      *)
Poll(j) ==
    /\ Resolve(jobs[j].ask)
    /\ \E k \in DOMAIN last'.plan.targets :
          answer' = [job |-> j, found |-> last'.plan.targets[k].ref = jobs[j].taker]
    /\ UNCHANGED jobs

VideoNext ==
    \/ \E ask \in Asks : Submit(ask) \/ SubmitFails(ask)
    \/ \E j \in DOMAIN jobs : Poll(j)

VideoSpec == VideoInit /\ [][VideoNext]_videoVars

-------------------------------------------------------------------------------
(* docs/media.md: "Native async contract: `POST /v1/videos/generations`    *)
(* then `GET /v1/videos/{id}`."  A poll that is answered at all is         *)
(* answered by the provider that took the job.                             *)
PollFindsItsJob == answer.found

===============================================================================
