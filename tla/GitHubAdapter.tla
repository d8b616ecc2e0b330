---------------------------- MODULE GitHubAdapter ----------------------------
(***************************************************************************)
(* GitHubMergeAdapter of integrations/openclaw/github_adapter.py: what the *)
(* adapter concludes from each answer of the provider.  The calls          *)
(* themselves, and what goes on between them, are in PilotExecution.       *)
(***************************************************************************)
EXTENDS GitHubPull

CONSTANTS None,    \* no value
          Faults   \* what the network and GitHub may do wrong

AllFaults == {"unreachable",   \* the transport raises instead of answering
              "unavailable",   \* a status other than 200 to a GET
              "timeout",       \* the PUT gets no answer
              "gateway",       \* 502, 503, 504 to the PUT
              "server_error",  \* 500 to the PUT
              "garbled"}       \* an answer that is not JSON

ASSUME AdapterAssumption ==
    /\ Faults \subseteq AllFaults
    /\ None \notin Commits \union Heads

\* _receipt, with the fields the rest of the program reads.
Receipt(status, confirmed, sha) ==
    [status |-> status, side_effect_confirmed |-> confirmed,
     remote_operation_id |-> sha]
FailedReceipt == Receipt("failed", FALSE, None)
UnknownReceipt == Receipt("unknown", FALSE, None)

Receipts == [status : {"success", "failed", "unknown"},
             side_effect_confirmed : BOOLEAN,
             remote_operation_id : Commits \union {None}]

\* The answers a GET of the pull request may get: its current state (GitHub may
\* say at any time that an open one is not mergeable), or another status.
Pull == [status |-> 200, head |-> head, merged |-> merge # NoMerge,
         sha |-> IF merge = NoMerge THEN None ELSE merge.sha]
Unavailable == [status |-> 404, head |-> None, merged |-> FALSE, sha |-> None]
GetAnswers ==
    {Pull} \union (IF "unavailable" \in Faults THEN {Unavailable} ELSE {})

\* A GET that gives no answer: the transport does not connect or cannot decode.
GetRaises == Faults \intersect {"unreachable", "garbled"} # {}

\* execute, before the PUT: the receipt that ends the attempt, or None to go on.
Preflight(answer, expectedHead, mergeable) ==
    IF answer.status # 200 \/ answer.head # expectedHead THEN FailedReceipt
    ELSE IF answer.merged THEN Receipt("success", TRUE, answer.sha)
    ELSE IF ~mergeable THEN FailedReceipt
    ELSE None

\* What the PUT may be answered, given what GitHub did with it: 200 only if it
\* merged, a refusal only if it did not, a fault in any case.
PutAnswers(outcome) ==
    (IF outcome = "merged" THEN {"ok"} ELSE {})
    \union (IF outcome = "rejected" THEN {"conflict", "refused"} ELSE {})
    \union (Faults \intersect {"unreachable", "timeout", "gateway",
                               "server_error", "garbled"})

\* execute, after the PUT.  A success (200), a conflict (409, 422), a gateway
\* status and a transport error are looked up; every other status is a failure;
\* an answer that cannot be decoded raises out of execute.
LookedUp == {"ok", "conflict", "gateway", "timeout", "unreachable"}
Failed == {"refused", "server_error"}
Raised == {"garbled"}

\* Slip: any merge of the pull request is taken for this one.
LookupReceiptAnyHead(answer, expectedHead) ==
    IF answer.status # 200 \/ ~answer.merged THEN UnknownReceipt
    ELSE Receipt("success", TRUE, answer.sha)

\* _reconcile: what the second GET makes of the attempt.
LookupReceipt(answer, expectedHead) ==
    IF answer.status # 200 \/ ~answer.merged THEN UnknownReceipt
    ELSE IF answer.head # expectedHead THEN FailedReceipt
    ELSE Receipt("success", TRUE, answer.sha)

=============================================================================
