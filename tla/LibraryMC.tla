----------------------------- MODULE LibraryMC ------------------------------
(***************************************************************************)
(* The modules of the library for model checking.  They share no state, so *)
(* one of them is chosen in the beginning (part) and runs alone, on the    *)
(* variable they have in common.                                           *)
(***************************************************************************)
EXTENDS UriInputs

CONSTANTS
  MaxUnits, HighWatermark,                                    \* Streams
  ListLength, ListCapacity,                                   \* Lists
  TreeKeys, HashKeys, HashCapacity, TreeFrom,                 \* Maps
  ByteBase, BufferLength, MaxBuffers, MaxPooled, PoolSize, Alignment, Longest, \* Buffers
  Samples, Chars, MaxBytes, MaxChars, ChunkSize, MaxJobs, MaxWrites,           \* Base64
  CacheKeys, MaxCapacity, MaxNumber, MaxLayers,               \* Utilities
  Names, ConsoleCalls, MaxFormat, MaxRows, Columns, UnitBase, \* Console
  MaxText, MaxRoom, MaxSource, MaxTarget, CodePoints,         \* TextCodecs
  MaxSets, MaxChanges                                         \* Urls, Uris (the others: UrlInputs, UriInputs)

VARIABLES part, state
vars == <<part, state>>

Stream == INSTANCE Streams WITH streams <- state
List == INSTANCE Lists WITH lists <- state, MaxLength <- ListLength, Capacity <- ListCapacity
Map == INSTANCE Maps WITH maps <- state
Buffer == INSTANCE Buffers WITH buffers <- state, Base <- ByteBase, MaxLength <- BufferLength
Codec == INSTANCE Base64 WITH base64 <- state
Util == INSTANCE Utilities WITH utilities <- state, Keys <- CacheKeys
Log == INSTANCE Console WITH console <- state, MaxCalls <- ConsoleCalls, Base <- UnitBase
Text == INSTANCE TextCodecs WITH text <- state
Url == INSTANCE Urls WITH urls <- state
Uri == INSTANCE Uris WITH uris <- state, Names <- QueryNames

Init ==
  \/ part = "streams" /\ Stream!Init
  \/ part = "lists" /\ List!Init
  \/ part = "maps" /\ Map!Init
  \/ part = "buffers" /\ Buffer!Init
  \/ part = "base64" /\ Codec!Init
  \/ part = "util" /\ Util!Init
  \/ part = "console" /\ Log!Init
  \/ part = "text" /\ Text!Init
  \/ part = "url" /\ Url!Init
  \/ part = "uri" /\ Uri!Init

Next ==
  /\ UNCHANGED part
  /\ \/ part = "streams" /\ Stream!Next
     \/ part = "lists" /\ List!Next
     \/ part = "maps" /\ Map!Next
     \/ part = "buffers" /\ Buffer!Next
     \/ part = "base64" /\ Codec!Next
     \/ part = "util" /\ Util!Next
     \/ part = "console" /\ Log!Next
     \/ part = "text" /\ Text!Next
     \/ part = "url" /\ Url!Next
     \/ part = "uri" /\ Uri!Next

Spec == Init /\ [][Next]_vars

----------------------------------------------------------------------------
(* Every part keeps to its types. *)
TypeOK ==
  /\ part = "streams" => Stream!TypeOK
  /\ part = "lists" => List!TypeOK
  /\ part = "maps" => Map!TypeOK
  /\ part = "buffers" => Buffer!TypeOK
  /\ part = "base64" => Codec!TypeOK
  /\ part = "util" => Util!TypeOK
  /\ part = "console" => Log!TypeOK
  /\ part = "text" => Text!TypeOK
  /\ part = "url" => Url!TypeOK
  /\ part = "uri" => Uri!TypeOK

(* What a stream emits or writes is what it was given, in order and before *)
(* its end; a reader does not stall, and a writer told to wait is drained. *)
StreamsAreSound ==
  part = "streams" =>
    /\ Stream!EmittedInOrder /\ Stream!EndLast /\ Stream!NotStalled
    /\ Stream!WrittenInOrder /\ Stream!Backlog /\ Stream!DrainComes /\ Stream!Pressure

(* A container holds what its calls have put into it and answers for it,   *)
(* its trees are balanced, and a cache holds the latest of its keys.       *)
CollectionsAreSound ==
  /\ part = "lists" => List!Agrees /\ List!Answers
  /\ part = "maps" => Map!Agrees /\ Map!Answers /\ Map!Balanced
  /\ part = "util" => Util!CacheIsSound

(* Memory lives as long as the buffer that owns it, no two own the same,   *)
(* and what is written is read there as it was, but for the known numbers. *)
BuffersAreSound == part = "buffers" => Buffer!MemoryIsSound /\ Buffer!ContentsAreRight

(* What is encoded, written or calculated has the value it was made of,    *)
(* however it is cut into calls, and jobs read memory that is theirs.      *)
ValuesAreSound ==
  /\ part = "base64" => Codec!RoundTrip /\ Codec!GivenAgrees /\ Codec!JobsAreSound
  /\ part = "text" => Text!ChunksJoin /\ Text!EncodedIsWhole /\ Text!UnitsAreRight /\ Text!FoundIsThere
  /\ part = "url" =>
       /\ Url!ReadBack /\ Url!FieldsAreFresh /\ Url!ListsAgree /\ Url!ListsObey
       /\ Url!ResolvesBehind /\ Url!PathIsResolved /\ Url!AddressesKeepValue
  /\ part = "uri" =>
       Uri!ReadBack /\ Uri!PartsAgree /\ Uri!NormalizedOnce /\ Uri!MadeOfTheRest /\ Uri!PartsAreShown
  /\ part = "console" => Log!ArgumentsArePrinted /\ Log!TablesAreRight /\ Log!TimesAreRight
  /\ part = "util" => Util!RationalsAreSound /\ Util!ScopesAreSound /\ Util!AspectsAreSound /\ Util!PromisesAreKept
=============================================================================
