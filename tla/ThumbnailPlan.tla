---------------------------- MODULE ThumbnailPlan ----------------------------
(* What is made of an image: the bucket and the key a request falls in, the  *)
(* original or a thumbnail, its size and the memory it is expected to need   *)
(* (src-tauri/src/thumbnail/policy.rs, classify_item of service.rs), the     *)
(* stages of its generation (generator.rs) and the header that tells the     *)
(* size of the image beforehand (commands/image_dimensions.rs).              *)
(*                                                                           *)
(* Lengths are in units of Unit pixels.                                      *)
EXTENDS Integers, SequencesExt, FiniteSetsExt, Maps

CONSTANTS
    Images,     \* [width, height] as stored, turned: by its EXIF orientation,
                \* head: a readable header in its first bytes, bytes: of the file
    Widths,     \* widths the page may require
    Qualities,  \* a set of "standard", "high", "ultra"
    Unit,       \* pixels in a unit of length
    MemoryMb,   \* budget of the decoding memory
    Workers,    \* worker_limit
    MaxJobs     \* bound: jobs in the queue and at work

VARIABLES
    cache,  \* key -> size of its thumbnail, and the width it was made for
    jobs,   \* key -> the job of its thumbnail
    shown   \* what the page was last given

vars == <<cache, jobs, shown>>

Nothing == [kind |-> "nothing"]
Unknown == [width |-> 0, height |-> 0]

------------------------------------------------------------------------------
(* policy.rs.                                                                *)
Px(n) == n \div Unit
Area(n) == n \div (Unit * Unit)
Smaller(a, b) == IF a < b THEN a ELSE b
Larger(a, b) == IF a > b THEN a ELSE b

Buckets == {Px(n) : n \in {512, 768, 1024, 1536, 2048}}
MaxBucket(quality) == IF quality = "standard" THEN Px(1536) ELSE Px(2048)

SelectBucket(width) ==
    LET enough == {b \in Buckets : b >= width} IN IF enough = {} THEN Max(Buckets) ELSE Min(enough)

DecideSource(size, bytes, bucket) ==
    LET pixels == size.width * size.height IN
    CASE size = Unknown -> "generate"
      [] \/ 2 * size.width > 3 * bucket \/ pixels > Area(8000000) \/ bytes > 4000000
         \/ Larger(size.width, size.height) > Px(4096) -> "generate"
      [] 4 * size.width <= 5 * bucket /\ pixels <= Area(2000000) /\ bytes <= 2000000 -> "original"
      [] OTHER -> "generate"

OutputPixelBudget(size) ==
    LET short == Smaller(size.width, size.height) IN
    IF short > 0 /\ Larger(size.width, size.height) > 10 * short THEN Area(4000000) ELSE Area(3000000)

Megabytes(pixels) == (pixels * Unit * Unit * 4 + 999999) \div 1000000

(* Mutant of EstimatedMemory: the image to decode is forgotten.              *)
EstimatedOutput(size, bucket) ==
    Megabytes(bucket * (IF size.width = 0 THEN bucket ELSE (bucket * size.height) \div size.width))

EstimatedMemory(size, bucket) ==
    LET height == IF size.width = 0 THEN bucket ELSE (bucket * size.height) \div size.width
    IN Megabytes(size.width * size.height + bucket * height)

------------------------------------------------------------------------------
(* The image itself, as it is displayed, and what its header tells of it.    *)
Displayed(i) == IF i.turned THEN [width |-> i.height, height |-> i.width] ELSE [width |-> i.width, height |-> i.height]
Measured(i) == IF i.head THEN Displayed(i) ELSE Unknown

(* Mutant of ComputeOutputSize: the budget has the last word.                *)
OutputInBudget(size, job) ==
    LET wanted == Larger(Smaller(job.target, size.width), Smaller(job.floor, size.width))
        fits == {w \in 1 .. wanted : w * w * size.height <= job.budget * size.width}
        width == IF fits = {} THEN 1 ELSE Max(fits)
    IN [width |-> width, height |-> Larger(1, (2 * width * size.height + size.width) \div (2 * size.width))]

ComputeOutputSize(size, job) ==
    LET desired == Smaller(job.target, size.width)
        fits == {w \in 0 .. desired : w * w * size.height <= job.budget * size.width}
        width == Larger(1, Smaller(desired, Larger(job.floor, Max(fits))))
    IN [width |-> width, height |-> Larger(1, (2 * width * size.height + size.width) \div (2 * size.width))]

------------------------------------------------------------------------------
(* classify_item: the key holds the bucket, and not the width required.      *)
Target(width, quality) == Smaller(SelectBucket(width), MaxBucket(quality))
CacheKey(i, width, quality) == <<i, Target(width, quality), quality>>

Job(i, size, width, quality) ==
    LET target == Target(width, quality) IN
    [image |-> i, source |-> size, target |-> target, budget |-> OutputPixelBudget(size), floor |-> Smaller(width, target),
     estimate |-> EstimatedMemory(size, target), stage |-> "queued", abort |-> FALSE, waiting |-> {width}]

Given(i, thumbnail, width, quality) ==
    [kind |-> "thumbnail", image |-> i, thumbnail |-> thumbnail, required |-> width, quality |-> quality]

(* The page asks before or after the header has been read.                   *)
Request(i, width, quality) ==
    LET key == CacheKey(i, width, quality) IN
    IF key \in DOMAIN cache
    THEN shown' = Given(i, cache[key], width, quality) /\ UNCHANGED <<cache, jobs>>
    ELSE \E size \in {Unknown, Measured(i)} :
           IF DecideSource(size, i.bytes, Target(width, quality)) = "original"
           THEN shown' = Nothing /\ UNCHANGED <<cache, jobs>>
           ELSE /\ key \in DOMAIN jobs \/ Cardinality(DOMAIN jobs) < MaxJobs
                /\ jobs' = IF key \in DOMAIN jobs THEN [jobs EXCEPT ![key].waiting = @ \cup {width}]
                           ELSE Put(jobs, key, Job(i, size, width, quality))
                /\ shown' = Nothing /\ UNCHANGED cache

(* The scheduler starts what the memory allows, or one alone.                *)
Running == {key \in DOMAIN jobs : jobs[key].stage # "queued"}

Fits(key) ==
    LET expected == MapThenSumSet(LAMBDA k : jobs[k].estimate, Running) + jobs[key].estimate
    IN expected <= MemoryMb \/ Running = {}

Start(key) ==
    /\ jobs[key].stage = "queued" /\ Cardinality(Running) < Workers /\ Fits(key)
    /\ jobs' = [jobs EXCEPT ![key].stage = "decoding"]
    /\ UNCHANGED <<cache, shown>>

(* A new epoch: who waits goes, and who runs is told.                        *)
NewEpoch ==
    /\ jobs' = [key \in Running |-> [jobs[key] EXCEPT !.abort = TRUE, !.waiting = {}]]
    /\ UNCHANGED <<cache, shown>>

Ends(key) == jobs' = Without(jobs, {key}) /\ UNCHANGED <<cache, shown>>

(* generate_thumbnail: the flag is read between the stages.                  *)
After(stage) == CASE stage = "decoding" -> "resizing" [] stage = "resizing" -> "encoding" [] stage = "encoding" -> "writing"

Proceed(key) ==
    /\ jobs[key].stage \in {"decoding", "resizing", "encoding"}
    /\ IF jobs[key].abort THEN Ends(key)
       ELSE jobs' = [jobs EXCEPT ![key].stage = After(@)] /\ UNCHANGED <<cache, shown>>

Fails(key) == jobs[key].stage \in {"decoding", "encoding", "writing"} /\ Ends(key)

(* The file is renamed into place; a row is written for who still waits.     *)
Written(key) ==
    LET job == jobs[key]
        size == ComputeOutputSize(Displayed(job.image), job)
        thumbnail == [width |-> size.width, height |-> size.height, made |-> job.floor]
    IN /\ job.stage = "writing"
       /\ jobs' = Without(jobs, {key})
       /\ cache' = IF job.abort THEN cache ELSE Put(cache, key, thumbnail)
       /\ IF job.waiting = {} THEN UNCHANGED shown
          ELSE \E width \in job.waiting : shown' = Given(job.image, thumbnail, width, key[3])

------------------------------------------------------------------------------
Init == cache = EmptyMap /\ jobs = EmptyMap /\ shown = Nothing

Next == \/ \E i \in Images, width \in Widths, quality \in Qualities : Request(i, width, quality)
        \/ NewEpoch
        \/ \E key \in DOMAIN jobs : Start(key) \/ Proceed(key) \/ Fails(key) \/ Written(key)

Spec == Init /\ [][Next]_vars

------------------------------------------------------------------------------
Clear == shown.thumbnail.width >= Min({shown.required, MaxBucket(shown.quality), Displayed(shown.image).width})

(* A thumbnail made for the width it is shown at is as wide as that, the     *)
(* largest bucket or the image allow, never wider than the image, and larger *)
(* than the budget of pixels only for clarity's sake (compute_output_size).  *)
ThumbnailsClear ==
    shown # Nothing =>
      LET t == shown.thumbnail IN
      /\ t.made = Smaller(shown.required, Target(shown.required, shown.quality)) => Clear
      /\ t.width <= Displayed(shown.image).width
      /\ t.width > t.made => t.width * t.height <= Area(4000000) + t.width

(* So it is whoever it was made for. The code does not keep this: a width    *)
(* within the bucket of an earlier one gets its thumbnail.                   *)
HitsClear == shown # Nothing => Clear

(* What is decoded at one time, with the sizes of the images known, fits the *)
(* memory set aside for it, or is one image (estimated_decode_memory_mb, of  *)
(* the image and its thumbnail in four bytes a pixel).                       *)
Needed(key) == LET size == Displayed(jobs[key].image)
                   out == ComputeOutputSize(size, jobs[key])
               IN 4 * Unit * Unit * (size.width * size.height + out.width * out.height)

FitsMemory(decoded) ==
    Cardinality(decoded) > 1 => MapThenSumSet(LAMBDA key : Needed(key), decoded) <= MemoryMb * 1000000

DecodingFits == FitsMemory({key \in Running : jobs[key].source # Unknown})

(* The same of every image. The code does not keep this: an image of unknown *)
(* size is expected to need the memory of its thumbnail alone.               *)
AllDecodingFits == FitsMemory(Running)
=============================================================================
