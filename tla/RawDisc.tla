------------------------------- MODULE RawDisc -------------------------------
(***************************************************************************)
(* The reads of the raw ISO plugin, src/rawseciso/main.c: how a command is *)
(* turned into reads of the sectors the image lies in, through a cache of  *)
(* one device sector and, for PS1 images, a cache of CD sectors.           *)
(*                                                                         *)
(* A unit stands for a run of bytes, so that the sizes keep the relations  *)
(* of the code: a CD sector is no multiple of a device sector, and the     *)
(* data in it begin after a header.  What is read is a value per unit: the *)
(* device it came from, the sector and the place in it.                    *)
(*                                                                         *)
(* The sixteen tries of a read and the loop that opens a lost device again *)
(* are in RawSecIso; here a read of the device succeeds or fails.          *)
(***************************************************************************)
EXTENDS Integers, Sequences, FiniteSetsExt, EndToEnd

CONSTANTS
    Kinds,          \* of image: a subset of {"iso", "cd", "psx2352", "psx2048"}
    SectorSize,     \* size_sector: 512 bytes
    CdSize,         \* CD_SECTOR_SIZE_2352
    DataSize,       \* CD_SECTOR_SIZE_2048
    Header,         \* the 24 bytes before the data
    CD_CACHE_SIZE,  \* CD sectors in the CD cache: 48
    DetectSize,     \* what is read to tell the size of the CD sectors: 40 KB
    sections,       \* the image: <<first sector or Hole, number of sectors>> in order
    Requests,       \* the commands: <<operation, first, count>>
    MaxGen,         \* how often the device is replaced
    MaxFails        \* how many reads of the device fail

Hole == -1
None == -1      \* no sector; cached_cd_sector begins as 0x80000000

ASSUME SizesAssumption ==
    /\ {SectorSize, CdSize, DataSize, CD_CACHE_SIZE} \subseteq Nat \ {0}
    /\ {Header, DetectSize, MaxGen, MaxFails} \subseteq Nat
    /\ Header + DataSize <= CdSize
ASSUME SectionsAssumption ==
    sections \in Seq((Nat \cup {Hole}) \X (Nat \ {0}))
ASSUME CommandsAssumption ==
    /\ Kinds \subseteq {"iso", "cd", "psx2352", "psx2048"}
    /\ Requests \subseteq {"iso", "2048", "2352"} \X Nat \X (Nat \ {0})

VARIABLES
    kind,
    gen,             \* the device that is plugged in
    fails,           \* the reads that have failed
    request,         \* the command being served, or << >>
    todo,            \* the reads of the image and the moves left: [off, size, dst, to]
    buf, cd_cache,   \* the emulator's buffer and the CD cache
    cd_allocated,    \* cd_cache is not NULL
    last_sect, last_sect_buf, \* the cached sector, and the <<device, sector>> in the buffer
    cached_cd_sector,
    status,          \* "detect", "idle", "busy", "ok", "failed" or "crashed"
    faults           \* the known hazards that have been met

cacheVars == <<last_sect, last_sect_buf, cached_cd_sector>>
rawVars == <<kind, gen, fails, request, todo, buf, cd_cache, cd_allocated, cacheVars, status,
             faults>>

(***************************************************************************)
(* The image.                                                              *)
(***************************************************************************)
\* A section begins in the image where the one before it ends.
Lengths == [i \in DOMAIN sections |-> sections[i][2]]
Base == [i \in DOMAIN sections |-> StartOf(Numbered(Lengths), i) * SectorSize]
SizeOf(i)       == sections[i][2] * SectorSize
SectionsAt(off) == {i \in DOMAIN sections : Base[i] <= off /\ off < Base[i] + SizeOf(i)}

\* The unit at place i of a sector of device g.
Value(g, sector, i) == <<g, sector, i>>
Zero == <<"zero">>
Junk == <<"junk">>

\* The unit at off of the image on device g.
Image(g, off) ==
    LET in == {i \in SectionsAt(off) : sections[i][1] # Hole} IN
    IF in = {} THEN Zero
    ELSE LET i == CHOOSE i \in in : TRUE
             pos == off - Base[i]
         IN Value(g, sections[i][1] + pos \div SectorSize, pos % SectorSize)

NextReadNothing(off, size) ==
    IF SectionsAt(off) = {} THEN [idx |-> None, pos |-> 0, readsize |-> 0]
    ELSE LET i == Min(SectionsAt(off)) IN
         [idx |-> i, pos |-> off - Base[i],
          readsize |-> Min({size, Base[i] + SizeOf(i) - off})]
\* get_next_read: the section of an offset, and how much of it can be read at once.
\* Past the last section all that is asked for is one read of nothing.
NextRead(off, size) ==
    IF SectionsAt(off) = {} THEN [idx |-> None, pos |-> 0, readsize |-> size]
    ELSE LET i == Min(SectionsAt(off)) IN
         [idx |-> i, pos |-> off - Base[i],
          readsize |-> Min({size, Base[i] + SizeOf(i) - off})]

(***************************************************************************)
(* Buffers are functions on their offsets; Junk is what was there before.  *)
(***************************************************************************)
Buffer(size) == [i \in 0 .. size - 1 |-> Junk]
Put(b, at, data) == [i \in DOMAIN b |-> IF i - at \in DOMAIN data THEN data[i - at] ELSE b[i]]

\* The two buffers, after the data have been put at dst in the one a read is for.
PutTo(r, data) ==
    /\ buf' = IF r.to # "cache" THEN Put(buf, r.dst, data) ELSE buf
    /\ cd_cache' = IF r.to = "cache" THEN Put(cd_cache, r.dst, data) ELSE cd_cache

Reading(off, size, dst, to) == [off |-> off, size |-> size, dst |-> dst, to |-> to]

Start(k, state, b, reads) ==
    IF k = "cd"
    THEN /\ state = "detect" /\ b = Buffer(DetectSize)
         /\ reads = <<Reading(0, DetectSize, 0, "buf")>>
    ELSE state = "idle" /\ b = << >> /\ reads = << >>

DiscInit ==
    /\ kind \in Kinds
    /\ gen = 0 /\ fails = 0 /\ request = << >> /\ faults = {}
    /\ last_sect = None /\ last_sect_buf = << >> /\ cached_cd_sector = None
    /\ cd_cache = Buffer(CD_CACHE_SIZE * CdSize) /\ cd_allocated = FALSE
    /\ Start(kind, status, buf, todo)

(***************************************************************************)
(* The commands, as the reads they come to.                                *)
(***************************************************************************)
OpsOf == [iso |-> {"iso"}, cd |-> {"2048", "2352"}, psx2352 |-> {"2048", "2352"},
          psx2048 |-> {"2048", "2352"}]
UnitOf(op) == CASE op = "iso" -> 1 [] op = "2048" -> DataSize [] op = "2352" -> CdSize

\* (A bound: no further command once a hazard of faults has been met.)
Begin(op, first, count) ==
    /\ status = "idle" /\ faults = {} /\ op \in OpsOf[kind]
    /\ request' = <<op, first, count>>
    /\ status' = "busy"

\* process_read_iso_cmd, for an image of data sectors.
ReadIso(first, count) ==
    /\ Begin("iso", first, count)
    /\ buf' = Buffer(count)
    /\ todo' = <<Reading(first, count, 0, "buf")>>
    /\ UNCHANGED <<kind, gen, fails, cd_cache, cd_allocated, cacheVars, faults>>

\* process_read_cd_2048_cmd: as many raw sectors as fit are read at once, and their data
\* moved down in place; the others are read one by one, without their headers.
Fit(count) == (count * DataSize) \div CdSize
ReadCd2048(first, count) ==
    /\ kind = "cd"
    /\ Begin("2048", first, count)
    /\ buf' = Buffer(count * DataSize)
    /\ todo' = (IF Fit(count) = 0 THEN << >>
                ELSE <<Reading(first * CdSize, Fit(count) * CdSize, 0, "raw")>>) \o
               [i \in 1 .. count |->
                   LET k == i - 1 IN
                   IF k < Fit(count)
                   THEN Reading(k * CdSize + Header, DataSize, k * DataSize, "move")
                   ELSE Reading((first + k) * CdSize + Header, DataSize, k * DataSize, "buf")]
    /\ UNCHANGED <<kind, gen, fails, cd_cache, cd_allocated, cacheVars, faults>>

(***************************************************************************)
(* process_read_cd_2352_cmd: what the CD cache holds is copied, and the    *)
(* cache is then filled from the first sector that is missing.             *)
(***************************************************************************)
InCache(sector, count) ==
    LET dif == cached_cd_sector - sector IN
    cached_cd_sector # None /\ count <= CD_CACHE_SIZE /\ dif < CD_CACHE_SIZE /\ -dif < CD_CACHE_SIZE

OverlapShort(sector, count) ==
    LET dif == cached_cd_sector - sector IN
    IF dif > 0
    THEN [to |-> dif, from |-> 0, size |-> IF dif < count THEN count - dif ELSE 0]
    ELSE [to |-> 0, from |-> 0, size |-> Min({count, CD_CACHE_SIZE + dif})]
\* The overlap with the cache: its place in the buffer and in the cache, and its size.
Overlap(sector, count) ==
    LET dif == cached_cd_sector - sector IN
    IF dif > 0
    THEN [to |-> dif, from |-> 0, size |-> IF dif < count THEN count - dif ELSE 0]
    ELSE [to |-> 0, from |-> -dif, size |-> Min({count, CD_CACHE_SIZE + dif})]

\* The cached sectors in a new buffer.
FromCache(sector, count) ==
    IF ~InCache(sector, count) THEN Buffer(count * CdSize)
    ELSE LET o == Overlap(sector, count)
             cached == [i \in 0 .. o.size * CdSize - 1 |-> cd_cache[o.from * CdSize + i]]
         IN Put(Buffer(count * CdSize), o.to * CdSize, cached)

\* The sectors that are missing, <<first, count, place in the buffer>>.
Missing(sector, count) ==
    IF ~InCache(sector, count) THEN <<sector, count, 0>>
    ELSE LET o == Overlap(sector, count)
             new == cached_cd_sector + CD_CACHE_SIZE
         IN IF o.to > 0 THEN <<sector, count - o.size, 0>>
            ELSE <<new, count - o.size, new - sector>>

ReadCd2352(first, count) ==
    /\ kind = "cd"
    /\ Begin("2352", first, count)
    /\ buf' = FromCache(first, count)
    /\ LET m == Missing(first, count) IN
       /\ todo' = CASE m[2] = 0 -> << >>
                    [] m[2] > 0 /\ count > CD_CACHE_SIZE ->
                         <<Reading(first * CdSize, count * CdSize, 0, "buf")>>
                    [] OTHER -> <<Reading(m[1] * CdSize, CD_CACHE_SIZE * CdSize, 0, "cache")>>
       /\ cd_allocated' = (cd_allocated \/ (m[2] > 0 /\ count <= CD_CACHE_SIZE))
    /\ UNCHANGED <<kind, gen, fails, cd_cache, cacheVars, faults>>

\* The memory of the CD cache cannot be had.
ReadCdNoMemory(first, count) ==
    /\ kind = "cd" /\ ~cd_allocated /\ count <= CD_CACHE_SIZE
    /\ status = "idle" /\ faults = {}
    /\ request' = <<"2352", first, count>> /\ status' = "failed"
    /\ buf' = Buffer(count * CdSize)
    /\ UNCHANGED <<kind, gen, fails, todo, cd_cache, cd_allocated, cacheVars, faults>>

\* No number is cached and sector 0 is asked for: 0x80000000 - 0 is INT_MIN, whose negation
\* overflows.  Where it stays negative the number counts as near, and the arithmetic wraps to
\* that of a number 0 with a negative overlap: 48 sectors of a CD cache that was never filled
\* are copied, past the end of a smaller buffer, and the cache is filled from sector 48 on.
\* (Where the build finds INT_MIN far, or there is no memory to copy, it is ReadCd2352.)
ReadCdWrapped(first, count) ==
    /\ kind = "cd" /\ cached_cd_sector = None /\ first = 0 /\ count <= CD_CACHE_SIZE
    /\ cd_allocated /\ status = "idle" /\ faults = {}
    /\ request' = <<"2352", first, count>> /\ status' = "busy"
    /\ buf' = [i \in 0 .. count * CdSize - 1 |-> cd_cache[i]]
    /\ todo' = <<Reading(CD_CACHE_SIZE * CdSize, CD_CACHE_SIZE * CdSize, 0, "cache")>>
    /\ faults' = {"wrapped"}
    /\ UNCHANGED <<kind, gen, fails, cd_cache, cd_allocated, cacheVars>>

\* process_read_psx_cmd: sector by sector, from an image of raw or of data sectors;
\* the header of a data sector is made up.
ReadPsx(op, first, count) ==
    /\ kind \in {"psx2352", "psx2048"}
    /\ Begin(op, first, count)
    /\ buf' = Buffer(count * UnitOf(op))
    /\ LET raw  == kind = "psx2352"
           unit == IF raw THEN CdSize ELSE DataSize
           size == IF raw /\ op = "2352" THEN CdSize ELSE DataSize
           skip == IF raw /\ op = "2048" THEN Header ELSE 0
           rel  == IF ~raw /\ op = "2352" THEN Header ELSE 0
       IN todo' = [i \in 1 .. count |->
              Reading((first + i - 1) * unit + skip, size, (i - 1) * UnitOf(op) + rel, "buf")]
    /\ UNCHANGED <<kind, gen, fails, cd_cache, cd_allocated, cacheVars, faults>>

Command == \E r \in Requests :
    \/ r[1] = "iso"  /\ ReadIso(r[2], r[3])
    \/ r[1] = "2048" /\ ReadCd2048(r[2], r[3])
    \/ r[1] = "2352" /\ ReadCd2352(r[2], r[3])
    \/ r[1] = "2352" /\ ReadCdNoMemory(r[2], r[3])
    \/ r[1] = "2352" /\ ReadCdWrapped(r[2], r[3])
    \/ ReadPsx(r[1], r[2], r[3])

(***************************************************************************)
(* One turn of the loop of process_read_iso_cmd: nothing to read, the rest *)
(* of a sector, whole sectors, the beginning of a sector.                  *)
(***************************************************************************)
Cur   == Head(todo)
Reads == IF todo # << >> /\ status \in {"busy", "detect"} /\ Cur.to # "move" /\ Cur.size > 0
         THEN {NextRead(Cur.off, Cur.size)} ELSE {}

Further(r, n) == Reading(r.off + n, r.size - n, r.dst + n, r.to)
Advance(n) == todo' = [todo EXCEPT ![1] = Further(Cur, n)]
Past(at)   == IF at.idx = None THEN TRUE ELSE sections[at.idx][1] = Hole
Sector(at) == sections[at.idx][1] + at.pos \div SectorSize
Skew(at)   == at.pos % SectorSize

Nothing == \E at \in Reads :
    /\ Past(at)
    /\ PutTo(Cur, [i \in 0 .. at.readsize - 1 |-> Zero])
    /\ Advance(at.readsize)
    /\ UNCHANGED <<kind, gen, fails, request, cd_allocated, cacheVars, status, faults>>

\* Part of a sector: through the one-sector cache.
Partial(at)  == ~Past(at) /\ (Skew(at) # 0 \/ at.readsize < SectorSize)
PartSize(at) == Min({SectorSize - Skew(at), at.readsize})
Misread(held, sector) ==
    CASE held = <<gen, sector>> -> {}
      [] held \in (0 .. gen - 1) \X {sector} -> {"replaced"}
      [] OTHER -> {"unfilled"}
SectorHeld(sector) == IF last_sect = sector THEN last_sect_buf ELSE <<gen, sector>>
ReadPartial == \E at \in Reads :
    /\ Partial(at)
    /\ \E sector \in {Sector(at)}, skew \in {Skew(at)}, n \in {PartSize(at)} :
         /\ \E held \in {SectorHeld(sector)} :
              /\ PutTo(Cur, [i \in 0 .. n - 1 |->
                    IF held = << >> THEN Junk ELSE Value(held[1], held[2], skew + i)])
              /\ last_sect_buf' = held
              /\ faults' = faults \cup Misread(held, sector)
         /\ last_sect' = sector
         /\ Advance(n)
    /\ UNCHANGED <<kind, gen, fails, request, cd_allocated, cached_cd_sector, status>>

\* Whole sectors go to the destination itself; last_sect becomes the last of them.
Whole(at) == ~Past(at) /\ Skew(at) = 0 /\ at.readsize >= SectorSize
LastOfWhole(sector, n) == sector + n - 1
Content(sector, n) == [i \in 0 .. n * SectorSize - 1 |->
                          Value(gen, sector + i \div SectorSize, i % SectorSize)]
ReadWhole == \E at \in Reads :
    /\ Whole(at)
    /\ \E sector \in {Sector(at)}, n \in {at.readsize \div SectorSize} :
         /\ PutTo(Cur, Content(sector, n))
         /\ last_sect' = LastOfWhole(sector, n)
         /\ Advance(n * SectorSize)
    /\ UNCHANGED <<kind, gen, fails, request, cd_allocated, last_sect_buf, cached_cd_sector, status,
                   faults>>

(***************************************************************************)
(* A read of the device fails for good, with an error or with fewer        *)
(* sectors than were asked for.  What it has read till then is where it    *)
(* was to go: some first sectors of those asked for or, of the one sector, *)
(* all of it or a part (<< >>: the buffer is of no sector).                *)
(* process_read_cd_2048_cmd does not look at the result; a CD cache that   *)
(* was being filled keeps its number.                                      *)
(***************************************************************************)
Ignored == status = "busy" /\ kind = "cd" /\ request[1] = "2048"
Arrived(at) == IF Whole(at) THEN 0 .. at.readsize \div SectorSize ELSE {0}
PartArrived(at) == IF Whole(at) THEN {last_sect_buf}
                   ELSE {last_sect_buf, <<gen, Sector(at)>>, << >>}
Torn(n) == Cur.to = "cache" /\ cached_cd_sector # None /\ (Cur.dst > 0 \/ n > 0)
DeviceFails == \E at \in Reads :
    /\ fails < MaxFails /\ fails' = fails + 1      \* a bound
    /\ Whole(at) \/ (Partial(at) /\ last_sect # Sector(at))
    /\ last_sect' = None /\ last_sect_buf' \in PartArrived(at)
    /\ todo' = IF Ignored THEN [todo EXCEPT ![1] = Reading(Cur.off, 0, Cur.dst, Cur.to)] ELSE << >>
    /\ status' = CASE Ignored -> "busy" [] status = "detect" -> "idle" [] OTHER -> "failed"
    /\ \E n \in Arrived(at) :
         /\ PutTo(Cur, Content(Sector(at), n))
         /\ faults' = faults \cup (IF Ignored THEN {"ignored"} ELSE {})
                             \cup (IF Torn(n) THEN {"torn"} ELSE {})
    /\ UNCHANGED <<kind, gen, request, cd_allocated, cached_cd_sector>>

(***************************************************************************)
(* The end of a read of the image.                                         *)
(***************************************************************************)
RefilledAtRequest ==
    LET m == Missing(request[2], request[3])
    IN /\ buf' = Put(buf, m[3] * CdSize, [i \in 0 .. m[2] * CdSize - 1 |-> cd_cache[i]])
       /\ cached_cd_sector' = request[2]
\* What of the CD cache goes to the buffer, and the number of its first sector.
Refilled ==
    LET m == Missing(request[2], request[3])
    IN /\ buf' = Put(buf, m[3] * CdSize, [i \in 0 .. m[2] * CdSize - 1 |-> cd_cache[i]])
       /\ cached_cd_sector' = m[1]

\* After ReadCdWrapped the number is 0x80000030, and -48 sectors are left to copy: of 48
\* asked for, none; of fewer, 4 GB.
WrappedNumber == None - CD_CACHE_SIZE
RefilledWrapped ==
    /\ cached_cd_sector' = WrappedNumber /\ UNCHANGED buf
    /\ status' = IF request[3] < CD_CACHE_SIZE THEN "crashed" ELSE status

ReadOver ==
    /\ todo # << >> /\ Cur.to # "move" /\ Cur.size = 0
    /\ todo' = Tail(todo)
    /\ \/ Cur.to # "cache" /\ UNCHANGED <<buf, cached_cd_sector, status>>
       \/ Cur.to = "cache" /\ "wrapped" \notin faults /\ Refilled /\ UNCHANGED status
       \/ Cur.to = "cache" /\ "wrapped" \in faults /\ RefilledWrapped
    /\ UNCHANGED <<kind, gen, fails, request, cd_cache, cd_allocated, last_sect, last_sect_buf,
                   faults>>

\* The data of one raw sector are moved down to those of the sectors before it.
Move ==
    /\ todo # << >> /\ Cur.to = "move"
    /\ todo' = Tail(todo)
    /\ buf' = Put(buf, Cur.dst, [i \in 0 .. Cur.size - 1 |-> buf[Cur.off + i]])
    /\ UNCHANGED <<kind, gen, fails, request, cd_cache, cd_allocated, cacheVars, status, faults>>

Answer == /\ todo = << >> /\ status \in {"busy", "detect"}
          /\ status' = IF status = "detect" THEN "idle" ELSE "ok"
          /\ UNCHANGED <<kind, gen, fails, request, todo, buf, cd_cache, cd_allocated, cacheVars,
                         faults>>
Over == /\ status \in {"ok", "failed"}
        /\ status' = "idle" /\ request' = << >> /\ buf' = << >>
        /\ UNCHANGED <<kind, gen, fails, todo, cd_cache, cd_allocated, cacheVars, faults>>

\* Another device is put in, when no command is served (ejected_disc opens it).
Replace == /\ kind \in {"psx2352", "psx2048"} /\ status = "idle" /\ gen < MaxGen
           /\ gen' = gen + 1
           /\ UNCHANGED <<kind, fails, request, todo, buf, cd_cache, cd_allocated, cacheVars,
                          status, faults>>

\* The plugin is stopped and started again.  (A bound: after a hazard of faults.)
Reload == /\ status \in {"idle", "crashed"} /\ faults # {}
          /\ gen' = 0 /\ request' = << >> /\ faults' = {}
          /\ last_sect' = None /\ last_sect_buf' = << >> /\ cached_cd_sector' = None
          /\ cd_cache' = Buffer(CD_CACHE_SIZE * CdSize) /\ cd_allocated' = FALSE
          /\ Start(kind, status', buf', todo')
          /\ UNCHANGED <<kind, fails>>

DiscNext == Command \/ Nothing \/ ReadPartial \/ ReadWhole \/ DeviceFails \/ ReadOver \/ Move
            \/ Answer \/ Over \/ Replace \/ Reload

DiscSpec == DiscInit /\ [][DiscNext]_rawVars

(***************************************************************************)
(* Fairness: a command that has begun goes on, to its answer.              *)
(***************************************************************************)
Goes == Nothing \/ ReadPartial \/ ReadWhole \/ ReadOver \/ Move \/ Answer
DiscFairSpec == DiscSpec /\ WF_rawVars(Goes)

(***************************************************************************)
(* Properties.  faults names the hazards that were met:                    *)
(* "unfilled": the cached sector is one that was read past the buffer      *)
(*   (main.c:441), and the buffer held another;                            *)
(* "replaced": it was read from a device that is gone;                     *)
(* "torn": the CD cache was partly overwritten by a read that failed and   *)
(*   kept its number (main.c:837);                                         *)
(* "wrapped": sector 0 was looked up in a CD cache without a number, and   *)
(*   found (main.c:773);                                                   *)
(* "ignored": a read failed and its command is answered OK (main.c:744).   *)
(***************************************************************************)
FaultKinds == {"unfilled", "replaced", "torn", "wrapped", "ignored"}
Units == (0 .. MaxGen) \X Nat \X (0 .. SectorSize - 1)
BufferOK(b) == \A i \in DOMAIN b : b[i] \in Units \cup {Zero, Junk}

\* No read or move goes past the end of the buffer it is for.
Within ==
    \A i \in DOMAIN todo :
        LET b == IF todo[i].to = "cache" THEN cd_cache ELSE buf IN
        (todo[i].dst .. todo[i].dst + todo[i].size - 1) \subseteq DOMAIN b

DiscTypeOK ==
    /\ kind \in Kinds /\ gen \in 0 .. MaxGen /\ fails \in 0 .. MaxFails
    /\ status \in {"detect", "idle", "busy", "ok", "failed", "crashed"}
    /\ cd_allocated \in BOOLEAN
    /\ BufferOK(buf) /\ BufferOK(cd_cache)
    /\ DOMAIN cd_cache = 0 .. CD_CACHE_SIZE * CdSize - 1
    /\ last_sect \in Nat \cup {None} /\ last_sect_buf \in ((0 .. MaxGen) \X Nat) \cup {<< >>}
    /\ cached_cd_sector \in Nat \cup {None, WrappedNumber}
    /\ faults \subseteq FaultKinds

\* What unit i of the answer of a command is to be; Junk where the code leaves the
\* buffer alone or makes a header up.
Wanted(op, first, i) ==
    LET k == i \div UnitOf(op)
        j == i % UnitOf(op)
    IN CASE op = "iso" -> Image(gen, first + i)
         [] op = "2048" /\ kind # "psx2048" -> Image(gen, (first + k) * CdSize + Header + j)
         [] op = "2048" /\ kind = "psx2048" -> Image(gen, (first + k) * DataSize + j)
         [] op = "2352" /\ kind # "psx2048" -> Image(gen, (first + k) * CdSize + j)
         [] OTHER -> IF Header <= j /\ j < Header + DataSize
                     THEN Image(gen, (first + k) * DataSize + j - Header) ELSE Junk

\* A command that is answered OK has delivered the image, whatever the commands
\* before it left in the caches, but for the hazards of faults (main.c:331-843).
DataRight ==
    status = "ok" /\ faults = {} =>
        \A i \in DOMAIN buf : buf[i] = Wanted(request[1], request[2], i)

\* Between reads the CD cache holds the sectors its number says (main.c:837-841).
CdCacheRight ==
    cached_cd_sector # None /\ faults = {} /\ (\A i \in DOMAIN todo : todo[i].to # "cache") =>
        \A i \in DOMAIN cd_cache : cd_cache[i] = Image(gen, cached_cd_sector * CdSize + i)

\* Every command comes to an answer: each turn of the loop reads something (main.c:339).
\* Only one that was wrapped may crash instead.
Answered == status = "busy" ~> status \in {"ok", "failed"} \/ "wrapped" \in faults

=============================================================================
