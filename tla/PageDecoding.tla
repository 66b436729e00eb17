---------------------------- MODULE PageDecoding ----------------------------
(***************************************************************************)
(* Reading a book's pages (angzarr_client/wrappers.py and helpers.py): the *)
(* four ways to decode a payload, and a reader that goes through a book    *)
(* with one of them.                                                       *)
(*                                                                         *)
(* A type URL is a prefix and a name, with or without a slash between      *)
(* them; bytes are what they decode to, or corrupt.  Any.Is, Any.Unpack    *)
(* and the parser are protobuf's: external.                                *)
(***************************************************************************)
EXTENDS Naturals, Sequences

CONSTANTS
  MessageType,  \* message types, by their full names
  Content,      \* what bytes may decode to, of any type
  Empty,        \* a message with no field set, in Content
  Unset,        \* an absent field, or Python's None
  MaxRead       \* bound: pages of a book

\* Of a URL with no slash the whole text is the name.
TypeUrl == [slash : BOOLEAN, name : MessageType]
Bytes   == Content \cup {"corrupt"}
Payload == [type_url : TypeUrl, bytes : Bytes]
AnyPage == {Unset} \cup Payload

VARIABLES
  book,       \* the pages' payloads
  reader,     \* the decoder used, and the type it is asked for
  next,       \* the page it has come to
  read,       \* what it answered, page by page
  raised      \* the exception that ended it

readerVars == <<book, reader, next, read, raised>>

----------------------------------------------------------------------------
(* protobuf. *)

Is(payload, type) == payload.type_url.slash /\ payload.type_url.name = type

\* Unpack into a message of a type: refused, an error, or the content.
Refused      == [how |-> "none"]
Error(e)     == [how |-> "raised", what |-> e]
Decoded(c)   == [how |-> "message", what |-> c]

Parse(payload) == IF payload.bytes = "corrupt" THEN Error("DecodeError")
                                               ELSE Decoded(payload.bytes)
Unpack(payload, type) == IF Is(payload, type) THEN Parse(payload) ELSE Refused

----------------------------------------------------------------------------
(* The helpers. *)

\* type_url_matches compares the name alone, so a URL with no slash matches.
type_url_matches(url, name) == url.name = name

type_matches(payload, type) == Is(payload, type)

\* Mutant: Unpack's answer is not looked at, and the message is still empty.
DecodeUnchecked(page, name, type) ==
  IF page = Unset THEN Refused
  ELSE IF ~type_url_matches(page.type_url, name) THEN Refused
  ELSE IF Is(page, type) THEN Parse(page) ELSE Decoded(Empty)

\* decode_event: by a name, into a message class that may be another's.
decode_event(page, name, type) ==
  IF page = Unset THEN Refused
  ELSE IF ~type_url_matches(page.type_url, name) THEN Refused
  ELSE Unpack(page, type)

\* EventPage.decode_typed: the name is the class's own.
decode_typed(page, type) ==
  IF page = Unset THEN Refused
  ELSE IF ~type_url_matches(page.type_url, type) THEN Refused
  ELSE Unpack(page, type)

try_unpack(payload, type) ==
  IF payload = Unset \/ ~type_matches(payload, type) THEN Refused
                                                     ELSE Parse(payload)

\* Of a page with no event a reader hands on the empty Any that protobuf reads
\* of an absent field, which is of no type; None itself, on which unpack ends
\* in an AttributeError, is not in a book.
unpack(payload, type) ==
  IF payload = Unset \/ ~type_matches(payload, type) THEN Error("ValueError")
                                                     ELSE Parse(payload)

Decoders == {"decode_event", "decode_typed", "try_unpack", "unpack"}

Decode(r, page) ==
  IF r.decoder = "decode_event" THEN decode_event(page, r.name, r.type)
  ELSE IF r.decoder = "decode_typed" THEN decode_typed(page, r.type)
  ELSE IF r.decoder = "try_unpack" THEN try_unpack(page, r.type)
  ELSE unpack(page, r.type)
----------------------------------------------------------------------------
(* A reader: the events of a response, folded by hand. *)

ReaderInit ==
  /\ book \in UNION {[1..n -> AnyPage] : n \in 0..MaxRead}
  /\ reader \in [decoder : Decoders, name : MessageType, type : MessageType]
  /\ reader.decoder # "decode_event" => reader.name = reader.type
  /\ next = 1 /\ read = <<>> /\ raised = Unset

Reads ==
  /\ raised = Unset /\ next <= Len(book)
  /\ LET answer == Decode(reader, book[next])
     IN  IF answer.how = "raised"
           THEN raised' = answer.what /\ UNCHANGED <<next, read>>
           ELSE /\ next' = next + 1 /\ read' = Append(read, answer)
                /\ UNCHANGED raised
  /\ UNCHANGED <<book, reader>>

Finished == (raised # Unset \/ next > Len(book)) /\ UNCHANGED readerVars

ReaderNext == Reads \/ Finished

ReaderSpec == ReaderInit /\ [][ReaderNext]_readerVars
----------------------------------------------------------------------------
\* A page whose type is the one asked for under every name given.
Asked(page) == /\ page # Unset /\ page.type_url.slash
               /\ page.type_url.name = reader.type
               /\ reader.name = reader.type

\* Whichever decoder a reader uses, it takes the pages of its type, and only
\* those, with the content they have: a page of another type never reads as
\* an empty message, bytes that do not decode are never passed over, and
\* only unpack raises on another type (helpers.py: "A mismatch is never an
\* empty message").
ReaderTakesItsPages ==
  /\ \A n \in DOMAIN read :
       read[n] = IF Asked(book[n]) THEN Decoded(book[n].bytes) ELSE Refused
  /\ raised # Unset =>
       IF Asked(book[next]) THEN raised = "DecodeError" /\ book[next].bytes = "corrupt"
                            ELSE raised = "ValueError" /\ reader.decoder = "unpack"
=============================================================================
