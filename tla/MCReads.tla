-------------------------------- MODULE MCReads --------------------------------
(* What lies between a page of the app and the bytes of an image, checked in  *)
(* one run: the machines named here, and those of MCArchives. "asked" and     *)
(* "opened" name the one whose steps a behaviour takes, the others rest in    *)
(* one of their first states. None of the properties is about two. The cache  *)
(* and the prefetch are extended, the others are instances.                   *)
(*   account   the cache of media under account commands, for one page        *)
(*   pages     the same cache between account commands, for two pages         *)
(*   protocol  one media:// request                                           *)
(*   listing, bodies   a WebDAV listing, and WebDAV reads                     *)
(*   plan      sizes and memory of thumbnails                                 *)
(*   prefetch  archive prefetch of the page's window                          *)
EXTENDS MCArchives, MediaCache, ArchivePrefetch

CONSTANTS p, q, one, two, PagesShown, Accounts, Hex, Headers, Folder, Children, Spellings, Images, Widths

VARIABLES asked,
          page, phase, url, target, answer, request,
          calls, listing,
          cache, jobs, shown

Protocol == INSTANCE MediaProtocol WITH Pages <- PagesShown, Sizes <- {0, 1, 2}, shown <- page

Dav == INSTANCE WebDavReads
         WITH Calls <- {one, two}, UrlEscapes <- {" "}, Size <- 3, Faults <- {"short", "other", "unlabelled"}, Cap <- 2,
              Concurrency <- 2, Budget <- 6

Plan == INSTANCE ThumbnailPlan
          WITH Qualities <- {"high"}, Unit <- 16, MemoryMb <- 128, Workers <- 2, MaxJobs <- 2

\* Two pages of one and two bytes, each kept under two keys, two requests for them, and
\* sessions of reading ahead.
MCPages == {p, q}
MCTasks == {one, two}
MCSessions == {1, 2}
MCSizeOf == p :> 1 @@ q :> 2
\* Pages of every kind of source (MCMediaProtocol).
Names == INSTANCE MCMediaProtocol
           WITH Pages <- {}, Accounts <- <<>>, Hex <- <<>>, Headers <- {}, Sizes <- {}, shown <- page
MCShown == Names!MCPages
MCAccounts == Names!MCAccounts
MCHex == Names!MCHex
MCHeaders == Names!MCHeaders
\* A folder with a space and a parenthesis in its name, with files and a folder in it whose names
\* need escapes, and servers that write it in sixty-four ways, some as the client does, some not.
MCFolder == <<<<"m">>, <<"a", " ", "(">>>>
MCChildren == {[name |-> <<"p">>, dir |-> FALSE, size |-> 2], [name |-> <<" ", "(">>, dir |-> FALSE, size |-> 0],
               [name |-> <<"m">>, dir |-> TRUE, size |-> 0]}
MCSpellings == [escapes : {{" "}, {" ", "("}}, full : BOOLEAN, slash : BOOLEAN, order : {"type first", "length first"},
                expanded : BOOLEAN, missing : BOOLEAN]
\* A strip over ten times as long as it is wide and a turned photograph, in units of sixteen pixels.
MCImages == {[width |-> 50, height |-> 520, turned |-> FALSE, head |-> TRUE, bytes |-> 3000000],
             [width |-> 250, height |-> 375, turned |-> TRUE, head |-> TRUE, bytes |-> 5000000]}
MCWidths == {60, 94}
\* Two windows of two archives, and a format the reader does not know.
MCWindows == {<<"a.cbz", "b.cbz">>, <<"c.tar", "c.cbz">>}
MCSupported == {"a.cbz", "b.cbz", "c.cbz"}

protocolVars == <<page, phase, url, target, answer, request>>
davVars == <<calls, listing>>
planVars == <<cache, jobs, shown>>
requestVars == <<asked, mediaVars, protocolVars, davVars, planVars, prefetchVars>>

RequestsInit ==
    /\ asked # "protocol" => /\ page = CHOOSE x \in PagesShown : TRUE
                             /\ request = [head |-> FALSE, header |-> Nil, size |-> 0, now |-> 0]
    /\ MediaInit /\ Protocol!Init /\ Dav!Init /\ Plan!Init /\ PrefetchInit

Init ==
    /\ \/ asked = "none" /\ opened \in {"backends", "header", "filter"}
       \/ opened = "none" /\ asked \in {"account", "pages", "protocol", "listing", "bodies", "plan", "prefetch"}
    /\ ArchivesInit /\ RequestsInit

OnlyMedia == asked = "account" /\ UNCHANGED <<asked, protocolVars, davVars, planVars, prefetchVars>>
OnlyPages == asked = "pages" /\ UNCHANGED <<asked, protocolVars, davVars, planVars, prefetchVars>>
OnlyProtocol == asked = "protocol" /\ UNCHANGED <<asked, mediaVars, davVars, planVars, prefetchVars>>
OnlyListing == asked = "listing" /\ UNCHANGED <<asked, mediaVars, protocolVars, calls, planVars, prefetchVars>>
OnlyBodies == asked = "bodies" /\ UNCHANGED <<asked, mediaVars, protocolVars, listing, planVars, prefetchVars>>
OnlyPlan == asked = "plan" /\ UNCHANGED <<asked, mediaVars, protocolVars, davVars, prefetchVars>>
OnlyPrefetch == asked = "prefetch" /\ UNCHANGED <<asked, mediaVars, protocolVars, davVars, planVars>>

AccountStep == OnlyMedia /\ MediaNext /\ \A t \in Tasks : tasks'[t].page # q
PagesStep == OnlyPages /\ MediaNext /\ edits' = edits
ProtocolStep == OnlyProtocol /\ Protocol!Next
ListingStep == OnlyListing /\ (Dav!ListDirectory \/ Dav!ParsePropfind)
BodiesStep == OnlyBodies /\ \E c \in {one, two} : Dav!Reads(c)
PlanStep == OnlyPlan /\ Plan!Next
PrefetchStep == OnlyPrefetch /\ PrefetchNext

RequestsStep ==
    /\ opened = "none" /\ UNCHANGED archiveVars
    /\ AccountStep \/ PagesStep \/ ProtocolStep \/ ListingStep \/ BodiesStep \/ PlanStep \/ PrefetchStep

ArchivesStep == asked = "none" /\ ArchivesSteps /\ UNCHANGED requestVars

Spec == Init /\ [][RequestsStep \/ ArchivesStep]_<<archiveVars, requestVars>>

(* What is answered is the page that was shown, save for what a WebDAV server *)
(* is asked for by a name that an address reads in another way, and a part of *)
(* it is the part asked for (MediaProtocol: rebuild_descriptor,               *)
(* parse_range_header).                                                       *)
PagesExact == Protocol!PagesOpen /\ Protocol!PartsExact

(* A listing is what is in the folder, and the folder only when the server    *)
(* writes its address unlike the client; a part of a file is that part when   *)
(* the server says where it begins, and as long in any case; what is taken in *)
(* fits the budget (WebDavReads: parse_propfind, verify_range_response,       *)
(* reserve_bytes).                                                            *)
ServersSeenThrough == Dav!ListingTrue /\ Dav!RangesExact /\ Dav!BodiesWithinBudget

(* A thumbnail is as wide as it is shown, as far as it can be, and what is    *)
(* decoded at one time fits the memory (ThumbnailPlan: compute_output_size,   *)
(* estimated_decode_memory_mb).                                               *)
ThumbnailsFit == Plan!ThumbnailsClear /\ Plan!DecodingFits
================================================================================
