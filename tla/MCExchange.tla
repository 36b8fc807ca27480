---------------------------- MODULE MCExchange ----------------------------
(* An instance of Exchange for TLC: the events, answers and tool calls in   *)
(* which the cases of the code happen.                                      *)
EXTENDS Exchange

CONSTANTS Bot, Ann, Eve, Crowd

Segment(type, keys, id) == [type |-> type, keys |-> keys, id |-> id]
Text == Segment("text", {"text"}, NoId)
ToBot == Segment("at", {"qq"}, Bot)
Photo == Segment("image", {"url", "file", "file_id"}, NoId)
Document == Segment("file", {"file", "file_id", "name", "size"}, NoId)

Event(type, user, message) ==
    [post |-> TRUE, type |-> type, user |-> user, group |-> IF type = "group" THEN Crowd ELSE NoId,
     self |-> Bot, timed |-> TRUE, message |-> message]

MCArrivals ==
    { Event("private", Ann, m) : m \in
        { << Text, Photo, Document >>,
          << Segment("face", {"id"}, 14), Segment("face", {"id"}, 999), Segment("text", {}, NoId), Junk >>,
          << Segment("record", {"file"}, NoId), Segment("share", {"url", "title", "app"}, NoId),
             Segment("json", {"data"}, NoId), Segment("file", {"name"}, NoId) >> } }
    \cup { Event("group", u, m) : u \in {Ann, Eve},
                                  m \in { << ToBot, Text >>, << Text, Junk, ToBot >>, << Text >> } }
    \cup { Event("private", Eve, << Text >>),                       \* no rule
           Event("group", Bot, << ToBot, Text >>),                  \* the bot itself
           [Event("private", Ann, << Text >>) EXCEPT !.timed = FALSE],
           [Event("private", Ann, << Text >>) EXCEPT !.post = FALSE],
           [Event("group", Ann, << ToBot >>) EXCEPT !.group = NoId],
           [Event("group", Ann, << ToBot >>) EXCEPT !.self = NoId] }

Rule(type, id, enabled, mention, blocked) ==
    [session |-> << type, id >>, enabled |-> enabled, mention |-> mention, blocked |-> blocked]

MCRules == << Rule("group", Crowd, TRUE, FALSE, {}), Rule("private", Ann, TRUE, FALSE, {}),
              Rule("group", Crowd, TRUE, TRUE, {Eve}), Rule("private", Eve, FALSE, FALSE, {}),
              Rule("group", Crowd, FALSE, FALSE, {}) >>
MCFaceIds == {14}

MCChildren == { Node("text", << "words", "known", "unknown" >>), Node("text", << >>),
                Node("face", << "known" >>), Node("image", << "key" >>), Node("video", << >>),
                Node("file", << "key" >>), Node("file", << "file" >>) }
Bubble(children, target, at) ==
    [tag |-> "message", of |-> << >>, children |-> children, target |-> target, at |-> at]
Root(nodes) == [form |-> "reply", root |-> nodes]

MCNodes(most) == UNION { [1..n -> MCChildren] : n \in 0..most }

MCAnswers ==
    { [form |-> f, root |-> << >>] : f \in {"foreign", "broken", "control", "empty"} }
    \cup { Root(nodes) : nodes \in MCNodes(2) }
    \cup { Root(<< Bubble(nodes, Ann, TRUE) >>) : nodes \in MCNodes(3) }
    \cup { Root(<< Bubble(<< a, b >>, NoTarget, at), a, Bubble(<< b >>, Ann, FALSE) >>) :
             a, b \in MCChildren, at \in BOOLEAN }
    \cup { FallbackAnswer }

History(type, peer, limit) == [tool |-> "history", type |-> type, peer |-> peer, limit |-> limit]

MCCalls ==
    { History("group", 1, n) : n \in {1, 3, 51} }
    \cup { History("private", 0, 2), History("channel", 1, 2) }
    \cup { [tool |-> "user_info", user |-> u] : u \in {0, 1} }
    \cup { [tool |-> "read_text", max |-> n] : n \in {0, 1} }
    \cup { [tool |-> t] : t \in {"metadata", "image", "video", "unknown"} }

MCCursors == {0, 40, 70}     \* refused; remembered or not read yet; of no message of the chat
MCLog == << 60, 50, NotADict, 40, NoMessageId, 30 >>
===========================================================================
