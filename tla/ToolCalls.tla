----------------------------- MODULE ToolCalls -----------------------------
(***************************************************************************)
(* One tool call of the model: agent-service's MCP gateway                 *)
(* (mcp_gateway.py), the MCP tools (mcp_main.py) with their HTTP client    *)
(* (client.py) and the sampling of video frames (vision.py), and the two   *)
(* HTTP APIs behind them: hub-service's over NapCat (hub router.py) and    *)
(* file-service's (file router.py).  Any layer may refuse or fail.         *)
(*                                                                         *)
(* The model reads the chat history page by page: a walk goes on with the  *)
(* cursor of the last page, while new messages arrive, and any other call  *)
(* begins a new one.  NapCat's answer is external: as hub-service reads    *)
(* it, it lists the messages before message_seq, the newest first; where   *)
(* it begins for a message_seq that is no message of the chat is open.  An *)
(* item may lack an id or not be a dict at all.                            *)
(*                                                                         *)
(* Faulty... operators are wrong variants of the definition below them,    *)
(* used by no action.                                                      *)
(***************************************************************************)
EXTENDS Integers, Sequences, FiniteSets, Functions, Selections

CONSTANTS
    Calls,          \* calls of the model, cursors aside: records with a field tool
    Cursors,        \* cursors the model makes up, remembers or takes from another chat
    Log,            \* the chat, newest first: ids, or NoMessageId and NotADict for odd items
    Unseen,         \* bound: the first items of Log arrive while the model reads
    MaxFrames,      \* bound: frames of a video
    NoMessageId, NotADict

Tools == {"history", "user_info", "metadata", "read_text", "image", "video"}

ASSUME CallAssumption ==
    /\ \A c \in Calls : "tool" \in DOMAIN c /\ "cursor" \notin DOMAIN c /\ c.tool \in Tools \cup {"unknown"}
    /\ Cursors \subseteq Int
ASSUME LogAssumption ==     \* an id belongs to one message
    /\ Log \in Seq({ Log[i] : i \in DOMAIN Log }) /\ Unseen \in 0..Len(Log)
    /\ \A i, j \in DOMAIN Log : Log[i] = Log[j] /\ Log[i] \notin {NoMessageId, NotADict} => i = j
ASSUME BoundAssumption == MaxFrames \in Nat \ {0}

VARIABLES
    tcPc,           \* the layer that acts: "idle", "tool", "hub", "napcat",
                    \* "files", "content", "vision", "done"
    call,           \* the call in progress
    result,         \* "ok", "isError" (an MCP error result) or "raised"
    asked,          \* what NapCat is asked: [action, id, count, seq]
    newest,         \* the position in Log of the newest message
    walk,           \* [from, cursor, seen]: where the walk began, its cursor, its ids
    frames          \* [total, count, indices] of the last sampling

toolVars == << tcPc, call, result, asked, newest, walk, frames >>

NoCall == [tool |-> "none"]
NoRequest == [action |-> "none", id |-> 0, count |-> 0, seq |-> 0]
NoWalk == [from |-> 0, cursor |-> NoMessageId, seen |-> << >>]
NoFrames == [total |-> 1, count |-> 1, indices |-> {0}]

ToolInit ==
    /\ tcPc = "idle"
    /\ call = NoCall
    /\ result = "ok"
    /\ asked = NoRequest
    /\ newest = Unseen + 1
    /\ walk = NoWalk
    /\ frames = NoFrames

Goes(layer) == tcPc' = layer /\ UNCHANGED << result, newest, walk >>
Ends(outcome) == tcPc' = "done" /\ result' = outcome /\ UNCHANGED << newest, walk >>

-----------------------------------------------------------------------------
(* The gateway and the tools *)

\* call_tool: the tool is registered and the arguments are a dict, and the MCP session
\* opens; otherwise the gateway raises.
CallTool(c) ==
    /\ tcPc = "idle"
    /\ call' = c
    /\ \/ c.tool \in Tools /\ Goes("tool")
       \/ Ends("raised")
    /\ UNCHANGED << asked, frames >>

\* The calls the model may make: a cursor is none, that of the last page, or any other.
ModelCalls ==
    LET paged(h, x) == [field \in DOMAIN h \cup {"cursor"} |-> IF field = "cursor" THEN x ELSE h[field]]
    IN  { c \in Calls : c.tool # "history" }
        \cup { paged(c, x) : c \in { h \in Calls : h.tool = "history" },
                            x \in {NoMessageId, walk.cursor} \cup Cursors }

FaultyAccepts(c) == c.tool = "history" => c.limit \in 1..50    \* nothing else is checked

\* The checks of the tool functions; peer_id is left to the hub.
Accepts(c) ==
    /\ c.tool = "history" => /\ c.limit \in 1..50
                             /\ c.cursor # NoMessageId => c.cursor >= 1
                             /\ c.type \in {"group", "private"}
    /\ c.tool = "user_info" => c.user >= 1
    /\ c.tool = "read_text" => c.max \in 1..50000

\* The tool checks its arguments and its client sends the first HTTP request.
ToolRuns ==
    /\ tcPc = "tool"
    /\ IF ~Accepts(call) THEN Ends("isError")
       ELSE Goes(IF call.tool \in {"history", "user_info"} THEN "hub" ELSE "files")
    /\ UNCHANGED << call, asked, frames >>

\* An HTTP request or the vision model fails or times out: the tool raises, FastMCP
\* makes that an error result.
RequestFails ==
    /\ tcPc \in {"hub", "napcat", "files", "content", "vision"}
    /\ Ends("isError")
    /\ UNCHANGED << call, asked, frames >>

-----------------------------------------------------------------------------
(* The hub's API *)

\* The query parameters FastAPI lets through.
Valid(c) ==
    c.tool = "history" => /\ c.type \in {"group", "private"} /\ c.peer >= 1
                          /\ c.limit \in 1..50
                          /\ c.cursor # NoMessageId => c.cursor >= 1

Request(c) ==
    IF c.tool = "user_info"
    THEN [action |-> "get_stranger_info", id |-> c.user, count |-> 0, seq |-> 0]
    ELSE [action |-> IF c.type = "group" THEN "get_group_msg_history" ELSE "get_friend_msg_history",
          id |-> c.peer, count |-> c.limit, seq |-> IF c.cursor = NoMessageId THEN 0 ELSE c.cursor]

\* NapCat is connected and asked, or the answer is 422 or 503.
HubAsks ==
    /\ tcPc = "hub"
    /\ \/ Valid(call) /\ asked' = Request(call) /\ Goes("napcat")
       \/ Ends("isError") /\ UNCHANGED asked
    /\ UNCHANGED << call, frames >>

\* External: where NapCat's answer to a history request may begin: with the newest
\* message, behind the message it is asked about, or anywhere if it knows of none.
Starts(seq) ==
    LET known == { i \in newest..Len(Log) : Log[i] = seq }
    IN  IF seq = 0 THEN {newest}
        ELSE IF known # {} THEN { i + 1 : i \in known } ELSE newest..Len(Log) + 1

\* External: the page that begins there.
Page(start, count) ==
    SubSeq(Log, start, IF start + count - 1 < Len(Log) THEN start + count - 1 ELSE Len(Log))

Ids(page) == Select(page, { i \in DOMAIN page : page[i] \notin {NoMessageId, NotADict} })

FaultyNextCursor(page) == IF Ids(page) = << >> THEN NoMessageId ELSE Ids(page)[1]

\* _extract_next_before_message_id: the last id of the page.
NextCursor(page) ==
    LET ids == { i \in DOMAIN page : page[i] \notin {NoMessageId, NotADict} }
    IN  IF ids = {} THEN NoMessageId ELSE page[CHOOSE i \in ids : \A j \in ids : j <= i]

\* A page reaches the model, as the next of its walk or the first of a new one.
NapcatAnswersHistory ==
    /\ tcPc = "napcat" /\ call.tool = "history"
    /\ \E start \in Starts(asked.seq) :
         LET page == Page(start, asked.count)
             onward == asked.seq # 0 /\ asked.seq = walk.cursor
         IN  walk' = [from |-> IF onward THEN walk.from ELSE start,
                      cursor |-> NextCursor(page),
                      seen |-> (IF onward THEN walk.seen ELSE << >>) \o Ids(page)]
    /\ tcPc' = "done" /\ result' = "ok"
    /\ UNCHANGED << call, asked, newest, frames >>

\* Any answer about a user is passed on.
NapcatAnswersUser ==
    /\ tcPc = "napcat" /\ call.tool = "user_info"
    /\ Ends("ok")
    /\ UNCHANGED << call, asked, frames >>

\* External: a new message arrives.
MessageArrives ==
    /\ newest > 1 /\ walk # NoWalk
    /\ newest' = newest - 1
    /\ UNCHANGED << tcPc, call, result, asked, walk, frames >>

-----------------------------------------------------------------------------
(* file-service's API, and vision *)

\* GET text: an unknown or expired file, or one that is no text, ends the call.
TextAnswers ==
    /\ tcPc = "files" /\ call.tool = "read_text"
    /\ Ends("ok") \/ Ends("isError")
    /\ UNCHANGED << call, asked, frames >>

\* GET metadata: image and video go on to fetch the content, if the type is theirs.
MetadataAnswers ==
    /\ tcPc = "files" /\ call.tool \in {"metadata", "image", "video"}
    /\ \/ Ends("isError")
       \/ call.tool = "metadata" /\ Ends("ok")
       \/ call.tool # "metadata" /\ Goes("content")
    /\ UNCHANGED << call, asked, frames >>

\* GET content: the file may have expired since its metadata was read.
ContentAnswers ==
    /\ tcPc = "content"
    /\ Goes("vision") \/ Ends("isError")
    /\ UNCHANGED << call, asked, frames >>

\* round(i * (total - 1) / (count - 1)), with Python's rounding of halves to even.
Rounded(i, total, count) ==
    LET n == i * (total - 1)  d == count - 1  q == n \div d  r == 2 * (n % d)
    IN  IF r < d \/ (r = d /\ q % 2 = 0) THEN q ELSE q + 1

FaultySampleIndices(total, count) ==     \* the step is of count, not count - 1
    IF total <= 1 \/ count <= 1 THEN {0}
    ELSE LET n == IF total < count THEN total ELSE count
         IN  { Rounded(i, total, n + 1) : i \in 0..n - 1 }

\* _sample_indices
SampleIndices(total, count) ==
    IF total <= 1 \/ count <= 1 THEN {0}
    ELSE LET n == IF total < count THEN total ELSE count
         IN  { Rounded(i, total, n) : i \in 0..n - 1 }

\* The settings allow 1 to 12 frames.
FrameCounts == 1..12

\* describe_video, when OpenCV knows the number of frames: those that cannot be read are
\* skipped; without any the call fails.
DescribeVideo ==
    /\ tcPc = "vision" /\ call.tool = "video"
    /\ \E total \in 1..MaxFrames, count \in FrameCounts :
         frames' = [total |-> total, count |-> count, indices |-> SampleIndices(total, count)]
    /\ Ends("ok") \/ Ends("isError")
    /\ UNCHANGED << call, asked >>

DescribeImage ==
    /\ tcPc = "vision" /\ call.tool = "image"
    /\ Ends("ok") \/ Ends("isError")
    /\ UNCHANGED << call, asked, frames >>

ToolStep ==
    \/ ToolRuns \/ RequestFails \/ HubAsks \/ NapcatAnswersHistory \/ NapcatAnswersUser
    \/ TextAnswers \/ MetadataAnswers \/ ContentAnswers \/ DescribeVideo \/ DescribeImage

-----------------------------------------------------------------------------
(* Properties *)

ToolTypeOK ==
    /\ tcPc \in {"idle", "tool", "hub", "napcat", "files", "content", "vision", "done"}
    /\ call.tool \in Tools \cup {"none", "unknown"}
    /\ result \in {"ok", "isError", "raised"}
    /\ newest \in 1..Len(Log) + 1
    /\ walk.from \in 0..Len(Log) + 1
    /\ frames.total \in 1..MaxFrames /\ frames.count \in FrameCounts

\* Whatever the model puts into a call, NapCat is only asked about a positive id, for 1 to
\* 50 messages, and for those before a positive message id or for the newest: each part is
\* checked by the tool or by the hub's API, some by one of them only.  That the message is
\* one of the chat, or exists, is checked by neither.
NapcatSeesValidRequests ==
    tcPc = "napcat" =>
        /\ asked.id >= 1
        /\ asked.action # "get_stranger_info" =>
             asked.count \in 1..50 /\ (asked.seq = 0 \/ asked.seq >= 1)

\* The pages of a walk tile the history: each message once, the newest first, none left
\* out between the first page and the cursor, whatever arrives meanwhile and whatever
\* items without an id lie between.
PagesTile ==
    walk.seen # << >> =>
        LET last == CHOOSE i \in DOMAIN Log : Log[i] = walk.seen[Len(walk.seen)]
        IN  /\ walk.seen = Ids(SubSeq(Log, walk.from, last))
            /\ walk.cursor \in {NoMessageId, Log[last]}

\* How far neighbours among the numbers lie apart.
Gaps(indices) ==
    LET neighbours == { x \in indices \X indices :
                          x[1] < x[2] /\ \A k \in indices : k <= x[1] \/ k >= x[2] }
    IN  { x[2] - x[1] : x \in neighbours }

Spread(total, count, indices) ==
    /\ Cardinality(indices) = IF total < count THEN total ELSE count
    /\ 0 \in indices /\ indices \subseteq 0..total - 1
    /\ Cardinality(indices) > 1 => total - 1 \in indices
    /\ \A g, h \in Gaps(indices) : g - h <= 1

\* The sampled frames spread over the whole video: as many as asked for or the video has,
\* the first and (of several) the last among them, no gap more than one longer than
\* another.
FramesSpread == Spread(frames.total, frames.count, frames.indices)

=============================================================================
