-------------------------- MODULE InboundMessages --------------------------
(***************************************************************************)
(* What the model is told of QQ: the filter of NapcatWsGateway             *)
(* (_handle_event), the session key, and the conversion of a debounce      *)
(* window of OneBot events to <messages> (message_xml.py), which stores    *)
(* media in file-service (media_storage.py) and resolves files through     *)
(* NapCat (napcat_file_resolver.py) segment by segment.                    *)
(*                                                                         *)
(* An event is a record [post, type, user, group, self, timed, message]:   *)
(* its ids after _to_int (NoId where that gives None), whether its time is *)
(* valid, and its segments.  A segment is a record [type, keys, id]: the   *)
(* keys of data that have a value, and the id it carries (at: qq, face:    *)
(* the id).  Junk stands for an item that is no dict.  An XML child is a   *)
(* record [tag, of, shows]: its tag, the place in the message of the       *)
(* segment it renders, and its attributes.                                 *)
(*                                                                         *)
(* Faulty... operators are wrong variants of the definition below them,    *)
(* used by no action.                                                      *)
(***************************************************************************)
EXTENDS Integers, Sequences, FiniteSets

CONSTANTS
    Arrivals,       \* the events NapCat may report
    Rules,          \* session_whitelist: a sequence of
                    \*   [session, enabled, mention, blocked]
    FaceIds,        \* the ids of QQ_FACE_NAMES
    MaxWindow,      \* bound: events of one window
    NoId

ASSUME ArrivalAssumption == \A e \in Arrivals : e.message \in Seq({ e.message[i] : i \in DOMAIN e.message })
ASSUME WindowAssumption == MaxWindow \in Nat \ {0}
ASSUME RulesAssumption == Rules \in Seq({ Rules[i] : i \in DOMAIN Rules })

Junk == [type |-> "junk", keys |-> {}, id |-> NoId]

VARIABLES
    inPc,           \* "listen", "convert", "told"; "off" once the agent has it
    window,         \* the accepted events of the session
    messages,       \* <messages>: one [atBot, children] per converted event
    consumed        \* the place of its last segment converted so far

inVars == << inPc, window, messages, consumed >>

InInit ==
    /\ inPc = "listen"
    /\ window = << >>
    /\ messages = << >>
    /\ consumed = 0

-----------------------------------------------------------------------------
(* The event filter *)

\* napcat_ws.is_at_bot
Mentions(e) ==
    e.self # NoId /\ \E i \in DOMAIN e.message :
        e.message[i].type = "at" /\ e.message[i].id = e.self

\* message_xml._is_at_bot: the attribute at_bot the model sees.
AtBot(e) ==
    /\ e.self # NoId
    /\ \E i \in DOMAIN e.message :
        LET s == e.message[i] IN s # Junk /\ s.type = "at" /\ s.id = e.self

SessionKey(e) == << e.type, IF e.type = "private" THEN e.user ELSE e.group >>

\* _session_rules: of several entries of a session the last enabled one counts.
RuleFor(session) ==
    LET entries == { i \in DOMAIN Rules : Rules[i].session = session /\ Rules[i].enabled }
    IN  { Rules[i] : i \in { j \in entries : \A k \in entries : k <= j } }

FaultyHandles(e) ==     \* the mention is not required
    /\ e.post /\ e.type \in {"private", "group"}
    /\ e.user # NoId /\ e.self # NoId /\ e.user # e.self
    /\ e.timed
    /\ SessionKey(e)[2] # NoId
    /\ \E rule \in RuleFor(SessionKey(e)) : e.user \notin rule.blocked

\* The event passes _handle_event and reaches submit_event.
Handles(e) ==
    /\ e.post /\ e.type \in {"private", "group"}
    /\ e.user # NoId /\ e.self # NoId /\ e.user # e.self
    /\ e.timed
    /\ SessionKey(e)[2] # NoId
    /\ \E rule \in RuleFor(SessionKey(e)) :
        /\ e.user \notin rule.blocked
        /\ e.type = "group" /\ rule.mention => Mentions(e)

\* A runner collects the events of one session.
JoinWindow(e) ==
    /\ inPc = "listen" /\ Len(window) < MaxWindow
    /\ Handles(e)
    /\ window # << >> => SessionKey(e) = SessionKey(window[1])
    /\ window' = Append(window, e)
    /\ UNCHANGED << inPc, messages, consumed >>

CloseWindow ==
    /\ inPc = "listen" /\ window # << >>
    /\ inPc' = "convert"
    /\ UNCHANGED << window, messages, consumed >>

-----------------------------------------------------------------------------
(* The conversion *)

MediaTypes == {"image", "file", "record", "video"}
StoredAttrs == {"object_key", "name", "mime", "size", "sha256"}
UnsupportedFileAttrs == {"name", "size", "mime"}

\* INPUT_SEGMENT_ATTRS
SegmentAttrs == [ reply |-> {"id"}, at |-> {"qq"},
                  mface |-> {"emoji_package_id", "emoji_id", "summary"},
                  share |-> {"url", "title", "content", "image"},
                  location |-> {"lat", "lon", "title", "content"},
                  contact |-> {"type", "id"} ]

Child(tag, of, shows) == << [tag |-> tag, of |-> of, shows |-> shows] >>

\* _append_unsupported: of the data only a file's name, size and type are shown.
Unsupported(s, of, keys, reason) ==
    Child("unsupported", of,
          {"type"} \cup reason \cup (IF s.type = "file" THEN keys \cap UnsupportedFileAttrs ELSE {}))

\* resolve_file_url: a file with an id, and without url, may get one from NapCat.
Resolutions(s) ==
    IF s.type = "file" /\ "url" \notin s.keys /\ s.keys \cap {"file_id", "file", "id"} # {}
    THEN BOOLEAN ELSE {FALSE}

\* store_segment: file-service takes the content, or the request, its status or its
\* payload is wrong.
StoreOutcomes == BOOLEAN

FaultyStoredMedia(s, of, resolved, stored) ==     \* a media that cannot be stored is left out
    IF stored THEN Child(s.type, of, StoredAttrs) ELSE << >>

\* _append_stored_media
StoredMedia(s, of, resolved, stored) ==
    IF "url" \notin s.keys /\ ~resolved THEN Unsupported(s, of, s.keys, {})
    ELSE IF ~stored THEN Unsupported(s, of, s.keys \cup {"url"}, {"reason"})
    ELSE Child(s.type, of, StoredAttrs)

\* _append_input_segment: the children that the segment at place of adds.
Render(s, of, resolved, stored) ==
    IF s.type = "text" THEN IF "text" \in s.keys THEN Child("text", of, {}) ELSE << >>
    ELSE IF s.type = "face"
    THEN IF s.id \in FaceIds THEN Child("face", of, {"name"}) ELSE Unsupported(s, of, {}, {})
    ELSE IF s.type \in MediaTypes THEN StoredMedia(s, of, resolved, stored)
    ELSE IF s.type \in DOMAIN SegmentAttrs
    THEN Child(s.type, of, s.keys \cap SegmentAttrs[s.type])
    ELSE Unsupported(s, of, {}, {})

\* _message_segments: items that are no dict are skipped.
MessageSegments(value) == { i \in DOMAIN value : value[i] # Junk }

\* The places of the segments of an event that are yet to be converted.
Segments(n) == { i \in MessageSegments(window[n].message) : i > consumed }
Converted(n) == n > 0 => Segments(n) = {}

\* _message_attrs of the next event.
BeginMessage ==
    LET n == Len(messages) IN
    /\ inPc = "convert" /\ n < Len(window) /\ Converted(n)
    /\ messages' = Append(messages, [atBot |-> window[n + 1].type = "group" /\ AtBot(window[n + 1]),
                                     children |-> << >>])
    /\ consumed' = 0
    /\ UNCHANGED << inPc, window >>

\* The next segment; NapCat and file-service answer or fail.
ConvertSegment ==
    LET n == Len(messages) IN
    /\ inPc = "convert" /\ n > 0 /\ ~Converted(n)
    /\ \E i \in Segments(n) :
         LET s == window[n].message[i] IN
         /\ \A j \in Segments(n) : i <= j
         /\ \E resolved \in Resolutions(s), stored \in StoreOutcomes :
              messages' = [messages EXCEPT ![n].children = @ \o Render(s, i, resolved, stored)]
         /\ consumed' = i
    /\ UNCHANGED << inPc, window >>

Told ==
    LET n == Len(messages) IN
    /\ inPc = "convert" /\ n = Len(window) /\ Converted(n)
    /\ inPc' = "told"
    /\ UNCHANGED << window, messages, consumed >>

InNext == (\E e \in Arrivals : JoinWindow(e)) \/ CloseWindow \/ BeginMessage \/ ConvertSegment \/ Told

-----------------------------------------------------------------------------
(* Properties *)

InTypeOK ==
    /\ inPc \in {"listen", "convert", "told", "off"}
    /\ window \in Seq(Arrivals) /\ Len(window) <= MaxWindow
    /\ Len(messages) <= Len(window)
    /\ \A n \in DOMAIN messages : \A i \in DOMAIN messages[n].children :
         messages[n].children[i].tag \in
             {"text", "face", "unsupported"} \cup MediaTypes \cup DOMAIN SegmentAttrs
    /\ consumed \in Nat

\* What a segment says, whatever becomes of its media: one child, or none for an
\* empty text.
Worth(s) == s # Junk /\ ~(s.type = "text" /\ "text" \notin s.keys)

\* Whatever NapCat and file-service fail at, the model is told of every segment of
\* every message, once and in order (message_xml.py:438), as what it is or as
\* unsupported, and of a media only what file-service calls it: never the temporary URL
\* of NapCat.  Of the message being converted this holds up to the place reached.
EverySegmentTold ==
    \A n \in DOMAIN messages :
        LET children == messages[n].children
            message == window[n].message
            worth == { i \in DOMAIN message : Worth(message[i]) }
        IN  /\ \A c, d \in DOMAIN children : c < d => children[c].of < children[d].of
            /\ { children[c].of : c \in DOMAIN children } =
                 IF n < Len(messages) \/ inPc = "told" THEN worth ELSE { i \in worth : i <= consumed }
            /\ \A c \in DOMAIN children :
                 LET type == message[children[c].of].type IN
                 /\ children[c].tag \in {type, "unsupported"}
                 /\ type \in MediaTypes => children[c].shows \subseteq StoredAttrs \cup {"type", "reason"}

\* Whoever the model hears is allowed to speak: the session is enabled, the user is
\* not blocked and not the bot, and in a group that requires a mention the model sees
\* at_bot="true": the filter of the gateway and the attribute of the converter, two
\* separate pieces of code, agree.
OnlyAllowedSpeak ==
    \A n \in DOMAIN messages :
        LET e == window[n] IN
        /\ e.user # e.self /\ SessionKey(e) = SessionKey(window[1])
        /\ \E i \in DOMAIN Rules :
             /\ Rules[i].session = SessionKey(e) /\ Rules[i].enabled
             /\ \A j \in i + 1..Len(Rules) :
                  Rules[j].session = SessionKey(e) => ~Rules[j].enabled
             /\ e.user \notin Rules[i].blocked
             /\ e.type = "group" /\ Rules[i].mention => messages[n].atBot

=============================================================================
