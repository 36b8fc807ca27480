-------------------------- MODULE OutboundReplies --------------------------
(***************************************************************************)
(* From the model's final answer to what QQ shows: agent.py converges the  *)
(* answer to a <reply> (_parse_agent_reply), message_xml.py plans it as    *)
(* OneBot messages and file uploads (reply_xml_to_outbound_items),         *)
(* fetching media from file-service, and outbound_client.py sends them to  *)
(* NapCat one action after the other (send_reply).                         *)
(*                                                                         *)
(* An answer is a record [form, root]: a "reply" with the nodes of its     *)
(* root; a well-formed document with a "foreign" root; text that is        *)
(* "broken" XML; broken text with a "control" character; "empty".          *)
(* A node is a record [tag, of, children, target, at].  of is what it      *)
(* says: the parts of a text (words, a known or unknown inline face), the  *)
(* name of a face, where a media or a file is from ("file", "key" for      *)
(* object_key); children, target and at are those of a <message>.          *)
(* A segment or an upload is a record [tag, from]: from is the place in    *)
(* the reply it renders, << message, child, part >>.                       *)
(*                                                                         *)
(* Faulty... operators are wrong variants of the definition below them,    *)
(* used by no action.                                                      *)
(***************************************************************************)
EXTENDS Integers, Sequences, FiniteSets, Functions, Selections

CONSTANTS
    Answers,        \* the answers the model may give
    NoTarget

\* Nodes one behind the other, each with a list of what it says.
NodeList(nodes) ==
    /\ nodes \in Seq({ nodes[i] : i \in DOMAIN nodes })
    /\ \A i \in DOMAIN nodes : nodes[i].of \in Seq({ nodes[i].of[p] : p \in DOMAIN nodes[i].of })

ASSUME AnswerAssumption ==
    \A a \in Answers :
        /\ a.form \in {"reply", "foreign", "broken", "control", "empty"}
        /\ a.form = "reply" => NodeList(a.root) /\ \A i \in DOMAIN a.root : NodeList(a.root[i].children)

VARIABLES
    outPc,          \* "off", "plan", "send", "over"
    chatType,       \* "private" or "group", from the session key
    answer,         \* the model's answer
    place,          \* << message, child >> that the planner reads next
    pending,        \* pending_segments
    items,          \* the planned items
    next,           \* the item to send next
    shown,          \* the items QQ shows, in order
    refused,        \* the items NapCat refused
    faults          \* what else went wrong on the way

outVars == << outPc, chatType, answer, place, pending, items, next, shown, refused, faults >>

Node(tag, of) == [tag |-> tag, of |-> of, children |-> << >>, target |-> NoTarget, at |-> FALSE]

NoAnswer == [form |-> "empty", root |-> << >>]

OutInit ==
    /\ outPc = "off"
    /\ chatType = "private"
    /\ answer = NoAnswer
    /\ place = << 1, 1 >>
    /\ pending = << >>
    /\ items = << >>
    /\ next = 1
    /\ shown = << >>
    /\ refused = {}
    /\ faults = {}

-----------------------------------------------------------------------------
(* The agent's side: the answer becomes a <reply> *)

\* _text_reply_xml: the whole answer as one text.
TextReply(a) == << Node("text", IF a.form = "empty" THEN << >> ELSE << "words" >>) >>

\* _parse_agent_reply.  A control character passes unescaped into the text reply.
Reply(a) == IF a.form = "reply" THEN a.root ELSE TextReply(a)

\* ElementTree.fromstring in the hub raises on what _parse_agent_reply let pass.
WellFormed(a) == a.form # "control"

-----------------------------------------------------------------------------
(* The hub's side: planning *)

\* _reply_message_nodes: the <message> nodes, or the reply itself as one.
MessageNodes(root) ==
    LET grouped == Select(root, { i \in DOMAIN root : root[i].tag = "message" })
    IN  IF grouped = << >>
        THEN << [children |-> root, target |-> NoTarget, at |-> FALSE, grouped |-> FALSE] >>
        ELSE [m \in DOMAIN grouped |->
                [children |-> grouped[m].children, target |-> grouped[m].target,
                 at |-> grouped[m].at, grouped |-> TRUE]]

Nodes == MessageNodes(Reply(answer))

MediaTags == {"image", "record", "video"}

\* _output_text_segments, _output_face_attrs: the parts of a child that say something;
\* an unknown face and an empty text do not.
Parts(m, c, child) ==
    LET said == [p \in DOMAIN child.of |->
                   [tag |-> IF child.of[p] = "known" THEN "face"
                            ELSE IF child.of[p] = "unknown" THEN "unknown" ELSE child.tag,
                    from |-> << m, c, p >>]]
    IN  Select(said, { p \in DOMAIN said : said[p].tag # "unknown" })

\* _reply_child_to_onebot_segments: the segments a child stands for; a media without a
\* source and any other child give none.
ChildSegments(m, c, child) ==
    IF child.tag \in {"text", "face"} \cup MediaTags THEN Parts(m, c, child) ELSE << >>

\* _reply_file_to_upload
ChildUploads(m, c, child) ==
    IF child.tag = "file" /\ child.of # << >>
    THEN << [tag |-> "file", from |-> << m, c, 1 >>] >>
    ELSE << >>

\* The child's content is in file-service.
Fetches(child) == child.tag \in MediaTags \cup {"file"} /\ child.of = << "key" >>

Message(segments, m) ==
    << [kind |-> "message", says |-> segments, target |-> Nodes[m].target, at |-> Nodes[m].at] >>
Upload(uploads, m) ==
    << [kind |-> "upload", says |-> uploads, target |-> Nodes[m].target, at |-> FALSE] >>

MoreChildren == place[1] <= Len(Nodes) /\ place[2] <= Len(Nodes[place[1]].children)

FaultyFlush(m) ==     \* only at the end: text before a file is sent after it
    IF pending = << >> \/ MoreChildren THEN << >> ELSE Message(pending, m)

\* flush_pending_segments
Flush(m) == IF pending = << >> THEN << >> ELSE Message(pending, m)

\* /chat has answered, send_reply parses the reply.
BeginReply(a) ==
    /\ outPc = "off"
    /\ answer' = a
    /\ outPc' = IF WellFormed(a) THEN "plan" ELSE "over"
    /\ faults' = IF WellFormed(a) THEN {} ELSE {"unparsable"}
    /\ UNCHANGED << chatType, place, pending, items, next, shown, refused >>

\* One child of a message: a file is an item of its own, behind what is pending; other
\* segments join the pending ones of their <message>, or are sent one by one.
PlanChild ==
    LET m == place[1]  c == place[2]  child == Nodes[m].children[c]
        segments == ChildSegments(m, c, child)
        uploads == ChildUploads(m, c, child)
    IN
    /\ outPc = "plan" /\ MoreChildren
    /\ IF child.tag = "file"
       THEN /\ items' = items \o Flush(m) \o (IF uploads = << >> THEN << >> ELSE Upload(uploads, m))
            /\ pending' = IF Flush(m) = << >> THEN pending ELSE << >>
       ELSE IF Nodes[m].grouped
       THEN pending' = pending \o segments /\ UNCHANGED items
       ELSE /\ items' = IF segments = << >> THEN items ELSE items \o Message(segments, m)
            /\ UNCHANGED pending
    /\ place' = << m, c + 1 >>
    /\ UNCHANGED << outPc, chatType, answer, next, shown, refused, faults >>

FaultyGivesUp ==     \* a media that cannot be fetched is left out
    /\ place' = << place[1], place[2] + 1 >>
    /\ UNCHANGED << outPc, chatType, answer, pending, items, next, shown, refused, faults >>

\* MediaStorage.metadata or content raises: nothing of the reply is sent.
GivesUp ==
    /\ outPc' = "over"
    /\ faults' = faults \cup {"media"}
    /\ UNCHANGED << chatType, answer, place, pending, items, next, shown, refused >>

FetchFails ==
    /\ outPc = "plan" /\ MoreChildren
    /\ Fetches(Nodes[place[1]].children[place[2]])
    /\ GivesUp

EndMessage ==
    LET m == place[1] IN
    /\ outPc = "plan" /\ m <= Len(Nodes) /\ ~MoreChildren
    /\ items' = items \o Flush(m)
    /\ pending' = << >>
    /\ place' = << m + 1, 1 >>
    /\ UNCHANGED << outPc, chatType, answer, next, shown, refused, faults >>

BeginSending ==
    /\ outPc = "plan" /\ place[1] > Len(Nodes)
    /\ outPc' = "send"
    /\ UNCHANGED << chatType, answer, place, pending, items, next, shown, refused, faults >>

-----------------------------------------------------------------------------
(* The hub's side: sending *)

\* _with_group_at: an @ of the target before the message, in groups only.
Prefixed(item) ==
    chatType = "group" /\ item.kind = "message" /\ item.at /\ item.target # NoTarget

Shows(i) == Append(shown, [item |-> i, at |-> IF Prefixed(items[i]) THEN items[i].target ELSE NoTarget])

SendItem ==
    /\ outPc = "send" /\ next <= Len(items)
    /\ shown' = Shows(next)
    /\ next' = next + 1
    /\ UNCHANGED << outPc, chatType, answer, place, pending, items, refused, faults >>

\* NapCat refuses the action: send_reply does not look at the status of the answer.
ItemRefused ==
    /\ outPc = "send" /\ next <= Len(items)
    /\ refused' = refused \cup {next}
    /\ next' = next + 1
    /\ UNCHANGED << outPc, chatType, answer, place, pending, items, shown, faults >>

FaultyTimeout == outPc' = "send"    \* goes on with the next item

\* send_action raises: the rest of the reply is not sent.
StopsSending == outPc' = "over"

\* The action times out or NapCat is not connected; NapCat may have performed it.
ItemFails ==
    /\ outPc = "send" /\ next <= Len(items)
    /\ faults' = faults \cup {"action"}
    /\ shown' \in { shown, Shows(next) }
    /\ next' = next + 1
    /\ StopsSending
    /\ UNCHANGED << chatType, answer, place, pending, items, refused >>

ReplySent ==
    /\ outPc = "send" /\ next > Len(items)
    /\ outPc' = "over"
    /\ UNCHANGED << chatType, answer, place, pending, items, next, shown, refused, faults >>

OutStep ==
    \/ PlanChild \/ FetchFails \/ EndMessage \/ BeginSending
    \/ SendItem \/ ItemRefused \/ ItemFails \/ ReplySent

-----------------------------------------------------------------------------
(* Properties *)

OutTypeOK ==
    /\ outPc \in {"off", "plan", "send", "over"}
    /\ chatType \in {"private", "group"}
    /\ answer.form \in {"reply", "foreign", "broken", "control", "empty"}
    /\ \A i \in DOMAIN items : items[i].kind \in {"message", "upload"} /\ items[i].says # << >>
    /\ next \in 1..Len(items) + 1
    /\ refused \subseteq DOMAIN items
    /\ faults \subseteq {"unparsable", "media", "action"}

\* reply_xml_to_onebot_segments and reply_xml_to_file_uploads, the readings of a reply
\* without grouping: what a child says, and all that the reply says.
Says(m, c) ==
    LET child == Nodes[m].children[c] IN Range(ChildSegments(m, c, child)) \cup Range(ChildUploads(m, c, child))
Rendering == UNION { UNION { Says(m, c) : c \in DOMAIN Nodes[m].children } : m \in DOMAIN Nodes }

\* The place x comes before the place y in the document.
Before(x, y) ==
    \/ x[1] < y[1]
    \/ x[1] = y[1] /\ (x[2] < y[2] \/ (x[2] = y[2] /\ x[3] < y[3]))

\* A sequence of messages and uploads says what the reply says, each segment and file
\* once and in document order.
Renders(says) ==
    /\ UNION { Range(says[i]) : i \in DOMAIN says } = Rendering
    /\ \A i, j \in DOMAIN says : \A s \in DOMAIN says[i], t \in DOMAIN says[j] :
         i < j \/ (i = j /\ s < t) => Before(says[i][s].from, says[j][t].from)

\* The plan is the reply: its items say what the two plain readings of the reply say,
\* each segment and file once and in document order, however texts, media and files
\* alternate in it; one item never mixes two <message>s, and is sent to the
\* target of its own.
PlanIsRendering ==
    outPc = "send" =>
        /\ Renders([i \in DOMAIN items |-> items[i].says])
        /\ \A i \in DOMAIN items : \E m \in DOMAIN Nodes :
             /\ \A s \in DOMAIN items[i].says : items[i].says[s].from[1] = m
             /\ items[i].target = Nodes[m].target
             /\ items[i].kind = "message" => items[i].at = Nodes[m].at

\* A reader never sees a later part of a reply without the earlier ones, unless NapCat
\* refused these, and no part twice: after an action that fails, whether NapCat
\* performed it or not, nothing more is sent and nothing is sent again.
ShownInOrder ==
    \A i \in DOMAIN shown :
        /\ \A j \in DOMAIN shown : j < i => shown[j].item < shown[i].item
        /\ 1..shown[i].item - 1 \subseteq refused \cup { shown[j].item : j \in 1..i }

\* Without a fault the whole reply is shown: every answer of the model that says
\* something reaches QQ.  The faults are a reply the hub cannot parse, media that cannot
\* be fetched, and actions that fail or are refused.
DeliveredUnlessFault ==
    outPc = "over" /\ faults = {} /\ refused = {} =>
        /\ Len(shown) = Len(items)
        /\ answer.form \in {"foreign", "broken"} => shown # << >>
        /\ Renders([i \in DOMAIN shown |-> items[shown[i].item].says])

=============================================================================
