------------------------------- MODULE Answers -------------------------------
(***************************************************************************)
(* One request about the inventory, from the route to the last chunk of    *)
(* the answer: the calls of InventoryClient it makes, what the inventory   *)
(* may answer, which exceptions come of it, and what the customer is sent. *)
(* A streamed answer begins when the first chunk is there, so that an      *)
(* error before it still has a status of its own; an error after it can    *)
(* only break the answer off.                                              *)
(***************************************************************************)
EXTENDS Naturals, Sequences, SequencesExt, Absent

CONSTANT MaxLines   \* bound: lines that the inventory has to tell

VARIABLES
    asked,    \* the route of the request; None before there is one
    accept,   \* "json": one list; "lines": ndjson or csv, a line each
    calls,    \* calls of the client that are done
    reading,  \* the lines of the last call are being read
    told,     \* lines read
    status,   \* of http.response.start; None while nothing is sent
    body,     \* http.response.body, chunk by chunk
    over,     \* None, "ended" (more_body is False) or "broken"
    failed,   \* history: what has gone wrong between the backend and the inventory
    gone      \* history: the customer has closed the connection

answer == <<status, body, over>>
answerVars == <<asked, accept, calls, reading, told, answer, failed, gone>>

-----------------------------------------------------------------------------
(* The methods of InventoryClient: whether the lines are handed on as they *)
(* come, and which responses with an error make them raise.                *)

\* one function for the parts of a table
Together(parts) == [x \in UNION {DOMAIN p : p \in parts} |-> (CHOOSE p \in parts : x \in DOMAIN p)[x]]

Missing == {"not found", "no graph"}                        \* 404
Refusals == Missing \cup {"forbidden", "no database", "error"}
Errors == Refusals \cup {"unreachable", "took too long", "unreadable", "other type", "no access"}

ASSUME AnswersAssumption == MaxLines \in Nat /\ None \notin Errors \cup {"ended", "broken"}

Lines == [streams |-> TRUE, raises |-> Refusals, typed |-> TRUE]
Content == [Lines EXCEPT !.streams = FALSE]

SearchMethods ==
    [m \in {"execute_single", "search", "search_history", "history_timeline", "aggregate"} |-> Lines]
ReportMethods == [m \in {"benchmarks", "checks"} |-> Content]
PropertyMethods == [complete_property_path |-> Content, possible_values |-> Lines]
\* allowed_error_codes={404}: these raise, and all other errors are handed on like a result
NodeMethods == [resource |-> [Content EXCEPT !.raises = Missing]]
ModelMethods == [model |-> Content, timeseries |-> Lines]
ConfigMethods == [m \in {"update_node", "config", "update_config"} |-> Content]
\* call_json looks at the type of the response unless no result is expected
JsonMethods == [call_json |-> Content, call_json_for_nothing |-> [Content EXCEPT !.typed = FALSE]]

Client ==
    Together({SearchMethods, ReportMethods, PropertyMethods, NodeMethods, ModelMethods, ConfigMethods, JsonMethods})

-----------------------------------------------------------------------------
(* The routes, and the calls each one makes.  Calls that are gathered are  *)
(* one after the other: the first that fails decides.  /report-summary and *)
(* /workspace-info are the reports of Inventory.                           *)

ManagementRoutes ==
    [report_config |-> <<"config">>, update_report_config |-> <<"update_config">>,
     report_info |-> <<"benchmarks", "checks">>, list_benchmarks |-> <<"benchmarks">>, list_checks |-> <<"checks">>]
CheckRoutes ==
    [r \in {"get_benchmark", "put_benchmark", "get_check", "put_check", "delete_benchmark", "delete_check"} |->
        IF r \in {"delete_benchmark", "delete_check"} THEN <<"call_json_for_nothing">> ELSE <<"call_json">>]
ModelRoutes == [report |-> <<"execute_single">>, model |-> <<"model">>]
PropertyRoutes ==
    [search_start |-> <<"execute_single", "execute_single", "execute_single", "model">>,
     property_attributes |-> <<"possible_values">>, property_values |-> <<"possible_values">>,
     complete_property_path |-> <<"complete_property_path">>]
QueryRoutes ==
    [aggregate |-> <<"aggregate">>, search |-> <<"search">>, history_timeline |-> <<"history_timeline">>,
     search_table |-> <<"execute_single">>]
NodeRoutes ==
    [get_node |-> <<"resource", "checks">>, ignore_security |-> <<"update_node">>,
     neighborhood |-> <<"execute_single">>, get_node_history |-> <<"search_history">>]
SummaryRoutes == [timeseries |-> <<"timeseries">>, descendant_summary |-> <<"search", "search">>]

Routes ==
    Together({ManagementRoutes, CheckRoutes, ModelRoutes, PropertyRoutes, QueryRoutes, NodeRoutes, SummaryRoutes})

\* the routes that return a StreamOnSuccessResponse
Streamed ==
    {"report", "property_attributes", "property_values", "aggregate", "search", "history_timeline", "search_table",
     "neighborhood", "get_node_history"}

\* the answer may be cached, or there may be nothing to ask for: an empty list, or a node without checks
MayAskNothing(route, done) ==
    \/ done = 0 /\ route \in {"report_info", "list_benchmarks", "list_checks", "search_start", "descendant_summary"}
    \/ done = 1 /\ route = "get_node"
    \/ done = 3 /\ route = "search_start"

AnswersTypeOK ==
    /\ asked \in DOMAIN Routes \cup {None} /\ accept \in {"json", "lines"}
    /\ calls \in 0..4 /\ reading \in BOOLEAN /\ told \in 0..MaxLines
    /\ status \in 200..599 \cup {None}
    /\ body \in Seq({"[", "line", ",line", "]", "result", "detail"})
    /\ over \in {None, "ended", "broken"}
    /\ gone \in BOOLEAN

AnswersInit ==
    /\ asked = None /\ accept = "json"
    /\ calls = 0 /\ reading = FALSE /\ told = 0
    /\ status = None /\ body = <<>> /\ over = None
    /\ failed = None /\ gone = FALSE

-----------------------------------------------------------------------------
(* What is sent.                                                           *)

\* the status goes out with the first chunk, or at the end when there was none
SendChunks(chunks) ==
    /\ status' = IF status = None THEN 200 ELSE status
    /\ body' = body \o chunks

AnswerInstead(code) == status' = code /\ body' = <<"detail">> /\ over' = "ended"

\* all exceptions of InventoryClient are client errors; others are not
StreamStatus(e) == IF e \in Refusals \cup {"unreachable", "took too long"} THEN 400 ELSE 500

\* Mutant of RaiseInStream: the exception is caught whether the answer has begun or not.
EndAnyway(e) ==
    \/ status = None /\ AnswerInstead(StreamStatus(e))
    \/ status # None /\ over' = "ended" /\ UNCHANGED <<status, body>>

\* nothing can be said any more once the answer has begun
RaiseInStream(e) ==
    \/ status = None /\ AnswerInstead(StreamStatus(e))
    \/ status # None /\ over' = "broken" /\ UNCHANGED <<status, body>>

\* the exception handlers of the application; the status of any other error is passed on, here 500
HandlerStatus(e) ==
    CASE e = "forbidden" -> 401
      [] e \in Missing \cup {"no database"} -> 404
      [] e = "took too long" -> 408
      [] e = "other type" -> 422
      [] e = "unreachable" -> 502
      [] OTHER -> 500

Raises(e) ==
    /\ failed' = e
    /\ IF asked \in Streamed THEN RaiseInStream(e) ELSE AnswerInstead(HandlerStatus(e))
    /\ UNCHANGED <<asked, accept, calls, reading, told, gone>>

-----------------------------------------------------------------------------
(* A request.                                                              *)

Ask(route, a) ==
    /\ asked = None
    /\ asked' = route /\ accept' = a
    /\ UNCHANGED <<calls, reading, told, answer, failed, gone>>

UnderWay == asked # None /\ over = None

\* get_current_graph_db: the workspace has no access to a database, which no handler knows
NoAccess ==
    /\ UnderWay /\ calls = 0 /\ ~reading
    /\ failed' = "no access" /\ AnswerInstead(500)
    /\ UNCHANGED <<asked, accept, calls, reading, told, gone>>

CallLeft == UnderWay /\ ~reading /\ calls < Len(Routes[asked])
Method == Client[Routes[asked][calls + 1]]

\* _request and _stream: no connection, no answer in time, an error or a response of another type
CallFails ==
    /\ CallLeft
    /\ \E e \in Method.raises \cup {"unreachable", "took too long", "unreadable"}
                \cup (IF Method.typed THEN {"other type"} ELSE {}) : Raises(e)

CallSucceeds ==
    /\ CallLeft /\ asked \notin Streamed
    /\ calls' = calls + 1
    /\ UNCHANGED <<asked, accept, reading, told, answer, failed, gone>>

\* the text of an error that is not raised is taken for the node; it names no checks
ErrorForResult ==
    /\ CallLeft
    /\ \E e \in Refusals \ Method.raises :
        /\ failed' = e
        /\ calls' = Len(Routes[asked])
    /\ UNCHANGED <<asked, accept, reading, told, answer, gone>>

AskNothing ==
    /\ CallLeft /\ MayAskNothing(asked, calls)
    /\ calls' = Len(Routes[asked])
    /\ UNCHANGED <<asked, accept, reading, told, answer, failed, gone>>

\* json_serializer opens the list before it reads the first line
OpenStream ==
    /\ CallLeft /\ asked \in Streamed
    /\ calls' = calls + 1 /\ reading' = TRUE
    /\ IF accept = "json" THEN SendChunks(<<"[">>) ELSE UNCHANGED <<status, body>>
    /\ UNCHANGED <<asked, accept, told, over, failed, gone>>

NextLine ==
    /\ UnderWay /\ reading /\ told < MaxLines
    /\ told' = told + 1
    /\ SendChunks(IF accept = "json" /\ told > 0 THEN <<",line">> ELSE <<"line">>)
    /\ UNCHANGED <<asked, accept, calls, reading, over, failed, gone>>

EndOfStream ==
    /\ UnderWay /\ reading
    /\ SendChunks(IF accept = "json" THEN <<"]">> ELSE <<>>)
    /\ over' = "ended"
    /\ UNCHANGED <<asked, accept, calls, reading, told, failed, gone>>

\* the inventory falls silent, closes the connection or tells a line that is no json
StreamFails ==
    /\ UnderWay /\ reading
    /\ \E e \in {"took too long", "unreadable"} : Raises(e)

\* the task that sends a stream is cancelled
CloseConnection ==
    /\ UnderWay /\ asked \in Streamed
    /\ gone' = TRUE /\ over' = "broken"
    /\ UNCHANGED <<asked, accept, calls, reading, told, status, body, failed>>

Return200 ==
    /\ UnderWay /\ asked \notin Streamed /\ ~CallLeft
    /\ status' = IF asked \in {"delete_benchmark", "delete_check"} THEN 204 ELSE 200
    /\ body' = <<"result">> /\ over' = "ended"
    /\ UNCHANGED <<asked, accept, calls, reading, told, failed, gone>>

AnswersNext ==
    \/ \E route \in DOMAIN Routes, a \in {"json", "lines"} : Ask(route, a)
    \/ NoAccess \/ CallFails \/ CallSucceeds \/ ErrorForResult \/ AskNothing
    \/ OpenStream \/ NextLine \/ EndOfStream \/ StreamFails \/ CloseConnection \/ Return200

AnswersSpec == AnswersInit /\ [][AnswersNext]_answerVars

-----------------------------------------------------------------------------
(* What an answer promises.                                                *)

LinesOf(n) == [i \in 1..n |-> IF accept = "json" /\ i # 1 THEN ",line" ELSE "line"]
Whole ==
    IF asked \notin Streamed THEN <<"result">>
    ELSE IF accept = "json" THEN <<"[">> \o LinesOf(told) \o <<"]">>
    ELSE LinesOf(told)

\* An answer that comes to its end tells the truth: with a status of success it is all that the inventory had to
\* tell, and well formed; with another it is the error and nothing else, wherever the error came up.  Else the answer
\* breaks off, and only if it had begun.  The text of an error that is shown as a node is what the code does.
EndMeansComplete ==
    /\ over = "ended" /\ failed = None => status \in {200, 204} /\ body = Whole
    /\ over = "ended" /\ failed # None =>
            \/ status \notin {200, 204} /\ body = <<"detail">>
            \/ asked = "get_node" /\ failed \in Refusals \ Missing
    /\ over = "broken" => gone \/ (failed # None /\ status = 200)

=============================================================================
