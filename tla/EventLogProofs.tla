--------------------------- MODULE EventLogProofs ---------------------------
(***************************************************************************)
(* A proof that rotation loses no event that log() has written, for any    *)
(* sessions and events, any number of old logs kept, any number of         *)
(* rotations, crashes and failed writes.                                   *)
(***************************************************************************)
EXTENDS EventLog, SequenceTheorems, TLAPS

-----------------------------------------------------------------------------
(* The invariant.                                                           *)

HalfLine == [id : Nat, half : {1, 2}]

Event == [kind : {"connect", "command", "heartbeat"},
          session : Sessions \cup {"none"}, done : BOOLEAN]

\* No two names lead to one file: logrotate renames, it makes no links.
FilesInv ==
    /\ events \in Seq(Event)
    /\ disk \in Seq(Range(disk))
    /\ \A f \in DOMAIN disk : disk[f].data \in Seq(HalfLine)
    /\ dir \in [Name -> 0 .. Len(disk)]
    /\ \A a, b \in Name : dir[a] = dir[b] => a = b \/ dir[a] = NoFile

Writing == writer.pc \in {"open", "half"}

\* The file that is open is the live log, or was until the last rotation; it is
\* yesterday's log only once no rotation will compress it.
WriterInv ==
    /\ writer \in [pc : {"down", "idle", "open", "half"}, file : 0 .. Len(disk)]
    /\ Writing =>
          /\ writer.file # NoFile
          /\ \/ writer.file = dir[Live]
             \/ /\ rotation.pc \in {"idle", "delete"}
                /\ writer.file = dir[Plain(1)]
                /\ dir[Live] = NoFile
          /\ events # << >>
          /\ ~events[Len(events)].done

\* The name that a step of logrotate moves a file to is free.
RotationInv ==
    /\ rotation \in [pc : {"idle", "compress", "compressing", "compressed", "shift", "delete"},
                     k : 0 .. Keep, count : Nat]
    /\ rotation.pc \in {"idle", "compress", "compressing", "compressed"} => dir[Gz(Keep + 1)] = NoFile
    /\ rotation.pc \in {"idle", "compress", "delete"} => dir[Gz(1)] = NoFile
    /\ rotation.pc \in {"compress", "compressing", "compressed"} => dir[Plain(1)] # NoFile
    /\ rotation.pc \in {"compressing", "compressed"} => dir[Gz(1)] # NoFile
    /\ rotation.pc = "compressed" => disk[dir[Gz(1)]] = disk[dir[Plain(1)]]
    /\ rotation.pc = "shift" => dir[Plain(1)] = NoFile /\ dir[Gz(rotation.k + 1)] = NoFile

\* A line without its end is the last event's, or the last but one's once the
\* next is logged; that event's log() has not returned.
Torn(f) == disk[f].data # << >> /\ disk[f].data[Len(disk[f].data)].half = 1

LastFailed == events # << >> /\ ~events[Len(events)].done
BeforeFailed == Len(events) > 1 /\ ~events[Len(events) - 1].done

TornInv ==
    /\ ~Writing /\ dir[Live] # NoFile /\ Torn(dir[Live]) => LastFailed
    /\ writer.pc = "open" /\ Torn(writer.file) => BeforeFailed
    /\ writer.pc = "half" =>
          LET data == disk[writer.file].data
          IN  /\ data # << >>
              /\ data[Len(data)] = Half(1)
              /\ Len(data) = 1 \/ data[Len(data) - 1].half = 2 \/ BeforeFailed

\* While the compressed copy grows, it is not what keeps an event readable.
Lasting == {name \in Name : rotation.pc = "compressing" => name # Gz(1)}

KeptInv ==
    \A i \in DOMAIN events :
       events[i].done =>
          \/ i \in deleted
          \/ \E name \in Lasting : i \in EventsIn(name)
          \/ i > 1 /\ ~events[i - 1].done

LogInv == FilesInv /\ WriterInv /\ RotationInv /\ TornInv /\ KeptInv

-----------------------------------------------------------------------------
(* Names, files and lines.                                                  *)

\* The names that logrotate uses are different ones.
LEMMA Names ==
    /\ Live \in Name /\ Plain(1) \in Name /\ Live # Plain(1)
    /\ \A k \in 0 .. Keep + 1 : Gz(k) \in Name /\ Gz(k) # Live /\ Gz(k) # Plain(1)
    /\ \A j, k : Gz(j) = Gz(k) => j = k
    /\ Keep \in Nat /\ Keep > 0
  BY EventLogAssumption DEF Live, Plain, Gz, Name

\* A file is added.
LEMMA DiskAppend ==
    ASSUME FilesInv, NEW x, x.data \in Seq(HalfLine), disk' = Append(disk, x)
    PROVE  /\ Len(disk) \in Nat
           /\ DOMAIN disk = 1 .. Len(disk)
           /\ DOMAIN disk' = 1 .. (Len(disk) + 1)
           /\ Len(disk') = Len(disk) + 1
           /\ disk' \in Seq(Range(disk'))
           /\ \A f \in 1 .. Len(disk) : disk'[f] = disk[f]
           /\ disk'[Len(disk) + 1] = x
           /\ \A f \in DOMAIN disk' : disk'[f].data \in Seq(HalfLine)
  <1> DEFINE S == Range(disk) \cup {x}
  <1>1. disk \in Seq(S)
    BY SeqMonotonic DEF FilesInv
  <1>2. Len(disk) \in Nat /\ DOMAIN disk = 1 .. Len(disk)
    BY <1>1, LenProperties
  <1>3. x \in S
    OBVIOUS
  <1> HIDE DEF S
  <1>4. /\ disk' \in Seq(S)
        /\ Len(disk') = Len(disk) + 1
        /\ \A f \in 1 .. Len(disk) : disk'[f] = disk[f]
        /\ disk'[Len(disk) + 1] = x
    BY <1>1, <1>3, AppendProperties
  <1>5. disk' \in Seq(Range(disk')) /\ DOMAIN disk' = 1 .. (Len(disk) + 1)
    BY <1>4, SeqOfRange, LenProperties
  <1>6. \A f \in 1 .. (Len(disk) + 1) : f \in 1 .. Len(disk) \/ f = Len(disk) + 1
    BY <1>2
  <1>7. \A f \in 1 .. Len(disk) : disk[f].data \in Seq(HalfLine)
    BY <1>2 DEF FilesInv
  <1>8. \A f \in DOMAIN disk' : disk'[f].data \in Seq(HalfLine)
    BY <1>4, <1>5, <1>6, <1>7
  <1> QED
    BY <1>2, <1>4, <1>5, <1>8

\* A file is written.
LEMMA DiskUpdate ==
    ASSUME FilesInv, NEW file \in DOMAIN disk, NEW x, x.data \in Seq(HalfLine),
           disk' = [disk EXCEPT ![file] = x]
    PROVE  /\ Len(disk) \in Nat
           /\ DOMAIN disk = 1 .. Len(disk)
           /\ DOMAIN disk' = DOMAIN disk
           /\ Len(disk') = Len(disk)
           /\ disk' \in Seq(Range(disk'))
           /\ \A f \in DOMAIN disk : f # file => disk'[f] = disk[f]
           /\ disk'[file] = x
           /\ \A f \in DOMAIN disk' : disk'[f].data \in Seq(HalfLine)
  <1> DEFINE S == Range(disk) \cup {x}
  <1>1. disk \in Seq(S)
    BY SeqMonotonic DEF FilesInv
  <1>2. Len(disk) \in Nat /\ DOMAIN disk = 1 .. Len(disk)
    BY <1>1, LenProperties
  <1>3. x \in S
    OBVIOUS
  <1> HIDE DEF S
  <1>4. disk' \in Seq(S) /\ Len(disk') = Len(disk)
    BY <1>1, <1>2, <1>3, ExceptSeq
  <1>5. disk' \in Seq(Range(disk')) /\ DOMAIN disk' = DOMAIN disk
    BY <1>2, <1>4, SeqOfRange, LenProperties
  <1>6. disk'[file] = x /\ \A f \in DOMAIN disk : f # file => disk'[f] = disk[f]
    OBVIOUS
  <1>7. \A f \in DOMAIN disk' : disk'[f].data \in Seq(HalfLine)
    BY <1>5, <1>6 DEF FilesInv
  <1> QED
    BY <1>2, <1>4, <1>5, <1>6, <1>7

\* What a name leads to is a file.
LEMMA DirFiles ==
    ASSUME FilesInv, NEW name \in Name, dir[name] # NoFile
    PROVE  dir[name] \in DOMAIN disk /\ dir[name] \in 1 .. Len(disk)
  <1>1. Len(disk) \in Nat /\ DOMAIN disk = 1 .. Len(disk)
    BY LenProperties DEF FilesInv
  <1>2. dir[name] \in 0 .. Len(disk)
    BY DEF FilesInv
  <1> QED
    BY <1>1, <1>2 DEF NoFile

\* What is written after a line does not change it: whether a line is good
\* depends on nothing behind it.
LEMMA GoodKept ==
    ASSUME NEW data \in Seq(HalfLine), NEW more \in Seq(HalfLine), NEW i \in GoodLines(data)
    PROVE  i \in GoodLines(data \o more) /\ (data \o more)[i] = data[i]
  <1>1. /\ Len(data) \in Nat /\ DOMAIN data = 1 .. Len(data)
        /\ Len(more) \in Nat
    BY LenProperties
  <1>2. /\ data \o more \in Seq(HalfLine)
        /\ Len(data \o more) = Len(data) + Len(more)
        /\ \A j \in 1 .. Len(data) + Len(more) :
              (data \o more)[j] = IF j <= Len(data) THEN data[j] ELSE more[j - Len(data)]
    BY ConcatProperties
  <1>3. DOMAIN (data \o more) = 1 .. (Len(data) + Len(more))
    BY <1>2, LenProperties
  <1> DEFINE d == data \o more
  <1> HIDE DEF d
  <1>4. \A j \in 1 .. Len(data) : d[j] = data[j] /\ j \in DOMAIN d
    BY <1>1, <1>2, <1>3 DEF d
  <1>5. i \in 1 .. Len(data) /\ IsGood(data, i)
    BY <1>1 DEF GoodLines
  <1>6. i - 1 \in 1 .. Len(data) /\ (i = 2 \/ i - 2 \in 1 .. Len(data))
    BY <1>1, <1>5 DEF IsGood
  <1>7. IsGood(d, i)
    BY <1>4, <1>5, <1>6 DEF IsGood
  <1> QED
    BY <1>4, <1>5, <1>7 DEF GoodLines, d

\* An event can be read off a file's data.
Reads(data, id) == \E i \in GoodLines(data) : data[i].id = id

\* A line of both halves is good where the line before it has ended.
LEMMA GoodAtEnd ==
    ASSUME NEW data \in Seq(HalfLine), NEW id \in Nat, Len(data) > 1,
           data[Len(data)] = [id |-> id, half |-> 2],
           data[Len(data) - 1] = [id |-> id, half |-> 1],
           Len(data) = 2 \/ data[Len(data) - 2].half = 2
    PROVE  Reads(data, id)
  <1>1. Len(data) \in Nat /\ DOMAIN data = 1 .. Len(data)
    BY LenProperties
  <1>2. data[Len(data)].half = 2 /\ data[Len(data)].id = id
    OBVIOUS
  <1>3. Len(data) \in DOMAIN data
    BY <1>1
  <1>4. IsGood(data, Len(data))
    BY <1>2 DEF IsGood
  <1> QED
    BY <1>2, <1>3, <1>4 DEF GoodLines, Reads

\* An event stays readable if its file keeps a name and its data.
LEMMA SameFile ==
    ASSUME NEW m, NEW n, dir'[m] = dir[n],
           dir[n] # NoFile => disk'[dir[n]].data = disk[dir[n]].data
    PROVE  EventsIn(m)' = EventsIn(n)
  BY DEF EventsIn

\* A step that logs no event keeps the events if it keeps each file that holds
\* one.
LEMMA KeptFrame ==
    ASSUME KeptInv, UNCHANGED events, deleted \subseteq deleted',
           \A name \in Lasting : \A i \in EventsIn(name) :
              i \in deleted' \/ \E m \in Lasting' : i \in EventsIn(m)'
    PROVE  KeptInv'
  BY DEF KeptInv

-----------------------------------------------------------------------------
(* The writer's steps.                                                      *)

\* Opening the live log changes no file and no other name.
LEMMA OpenLive ==
    ASSUME FilesInv, events' \in Seq(Event), OpenAppend(Live)
    PROVE  /\ FilesInv'
           /\ Len(disk) \in Nat /\ Len(disk') \in Nat /\ Len(disk) <= Len(disk')
           /\ dir'[Live] \in 1 .. Len(disk')
           /\ \A name \in Name : dir[name] # NoFile \/ name # Live => dir'[name] = dir[name]
           /\ \A f \in DOMAIN disk : disk'[f] = disk[f]
           /\ dir[Live] = NoFile => disk'[dir'[Live]].data = << >>
           /\ dir[Live] # NoFile => UNCHANGED disk
           /\ \A name \in Name : EventsIn(name) \subseteq EventsIn(name)'
  <1>0. Len(disk) \in Nat /\ DOMAIN disk = 1 .. Len(disk)
    BY LenProperties DEF FilesInv
  <1>1. CASE dir[Live] # NoFile
    <2>1. UNCHANGED <<dir, disk>>
      BY <1>1 DEF OpenAppend
    <2>2. FilesInv'
      BY <2>1 DEF FilesInv
    <2>3. \A name \in Name : EventsIn(name)' = EventsIn(name)
      BY <2>1, SameFile
    <2> QED
      BY <1>0, <1>1, <2>1, <2>2, <2>3, Names, DirFiles
  <1>2. CASE dir[Live] = NoFile
    <2> DEFINE x == [data |-> << >>, mtime |-> Now]
    <2>1. disk' = Append(disk, x) /\ dir' = [dir EXCEPT ![Live] = Len(disk) + 1]
      BY <1>2 DEF OpenAppend
    <2>2. x.data = << >> /\ x.data \in Seq(HalfLine)
      BY EmptySeq
    <2> HIDE DEF x
    <2>3. /\ DOMAIN disk' = 1 .. (Len(disk) + 1)
          /\ Len(disk') = Len(disk) + 1
          /\ disk' \in Seq(Range(disk'))
          /\ \A f \in 1 .. Len(disk) : disk'[f] = disk[f]
          /\ disk'[Len(disk) + 1] = x
          /\ \A f \in DOMAIN disk' : disk'[f].data \in Seq(HalfLine)
      BY <2>1, <2>2, DiskAppend
    <2>4. /\ dir'[Live] = Len(disk) + 1
          /\ \A name \in Name : name # Live => dir'[name] = dir[name]
          /\ dir \in [Name -> 0 .. Len(disk)]
      BY <2>1, Names DEF FilesInv
    <2>5. dir' \in [Name -> 0 .. (Len(disk) + 1)]
      <3>1. \A name \in Name : dir'[name] \in 0 .. (Len(disk) + 1)
        BY <1>0, <2>4
      <3> QED
        BY <2>1, <3>1 DEF FilesInv
    <2>6. ASSUME NEW a \in Name, NEW b \in Name, dir'[a] = dir'[b]
          PROVE  a = b \/ dir'[a] = NoFile
      <3>1. \A name \in Name : name # Live => dir'[name] # Len(disk) + 1
        BY <1>0, <2>4
      <3> QED
        BY <2>4, <2>6, <3>1 DEF FilesInv
    <2>7. FilesInv'
      BY <2>3, <2>5, <2>6 DEF FilesInv
    <2>8. ASSUME NEW name \in Name PROVE EventsIn(name) \subseteq EventsIn(name)'
      <3>1. CASE name = Live
        BY <1>2, <3>1 DEF EventsIn
      <3>2. CASE name # Live
        BY <1>0, <2>3, <2>4, <3>2, DirFiles, SameFile
      <3> QED
        BY <3>1, <3>2
    <2> QED
      BY <1>0, <1>2, <2>2, <2>3, <2>4, <2>7, <2>8
  <1> QED
    BY <1>1, <1>2

\* A step of the writer disturbs no rotation.
LEMMA RotationFrame ==
    ASSUME FilesInv, RotationInv, UNCHANGED rotation,
           \A name \in Name : name # Live => dir'[name] = dir[name],
           rotation.pc = "compressed" =>
              \A name \in {Gz(1), Plain(1)} : disk'[dir[name]] = disk[dir[name]]
    PROVE  RotationInv'
  <1>1. /\ dir'[Gz(1)] = dir[Gz(1)] /\ dir'[Plain(1)] = dir[Plain(1)]
        /\ dir'[Gz(Keep + 1)] = dir[Gz(Keep + 1)]
        /\ dir'[Gz(rotation.k + 1)] = dir[Gz(rotation.k + 1)]
    BY Names DEF RotationInv
  <1> QED
    BY <1>1 DEF RotationInv

\* EventLogger() creates the live log if there is none (events.py).
LEMMA StartKeeps == LogInv /\ Start => LogInv'
  <1> SUFFICES ASSUME LogInv, Start PROVE LogInv'
    OBVIOUS
  <1> USE DEF LogInv
  <1>1. /\ writer.pc = "down" /\ writer' = [writer EXCEPT !.pc = "idle"]
        /\ UNCHANGED <<events, rotation, deleted>>
        /\ OpenAppend(Live)
    BY DEF Start
  <1>2. /\ FilesInv'
        /\ Len(disk) \in Nat /\ Len(disk') \in Nat /\ Len(disk) <= Len(disk')
        /\ \A name \in Name : dir[name] # NoFile \/ name # Live => dir'[name] = dir[name]
        /\ \A f \in DOMAIN disk : disk'[f] = disk[f]
        /\ dir[Live] = NoFile => disk'[dir'[Live]].data = << >>
        /\ dir[Live] # NoFile => UNCHANGED disk
        /\ \A name \in Name : EventsIn(name) \subseteq EventsIn(name)'
    BY <1>1, OpenLive DEF FilesInv
  <1>3. WriterInv'
    BY <1>1, <1>2 DEF WriterInv, Writing
  <1>4. RotationInv'
    <2>1. rotation.pc = "compressed" =>
             \A name \in {Gz(1), Plain(1)} : disk'[dir[name]] = disk[dir[name]]
      BY <1>2, Names, DirFiles DEF RotationInv
    <2> QED
      BY <1>1, <1>2, <2>1, RotationFrame
  <1>5. TornInv'
    <2>1. Torn(dir[Live])' => dir[Live] # NoFile /\ Torn(dir[Live])
      BY <1>2, Names DEF Torn
    <2>2. ~Writing /\ ~Writing' /\ writer'.pc = "idle" /\ LastFailed' = LastFailed
      BY <1>1 DEF Writing, LastFailed, WriterInv
    <2> QED
      BY <2>1, <2>2 DEF TornInv
  <1>6. KeptInv'
    <2>1. Lasting' = Lasting /\ Lasting \subseteq Name
      BY <1>1 DEF Lasting
    <2> QED
      BY <1>1, <1>2, <2>1, KeptFrame
  <1> QED
    BY <1>2, <1>3, <1>4, <1>5, <1>6

\* log() opens the live log for one event (events.py).
LEMMA OpenLogKeeps ==
    ASSUME LogInv, NEW kind \in {"connect", "command", "heartbeat"},
           NEW s \in Sessions \cup {"none"}, OpenLog(kind, s)
    PROVE  LogInv'
  <1> USE DEF LogInv
  <1> DEFINE e == [kind |-> kind, session |-> s, done |-> FALSE]
  <1>1. /\ writer.pc = "idle" /\ writer' = [pc |-> "open", file |-> dir'[Live]]
        /\ events' = Append(events, e)
        /\ UNCHANGED <<rotation, deleted>>
        /\ OpenAppend(Live)
    BY DEF OpenLog
  <1>2. e \in Event /\ ~e.done
    BY DEF Event
  <1> HIDE DEF e
  <1>3. /\ Len(events) \in Nat /\ DOMAIN events = 1 .. Len(events)
        /\ events' \in Seq(Event) /\ events' # << >>
        /\ Len(events') = Len(events) + 1
        /\ DOMAIN events' = 1 .. (Len(events) + 1)
        /\ \A i \in 1 .. Len(events) : events'[i] = events[i]
        /\ events'[Len(events) + 1] = e
    BY <1>1, <1>2, AppendProperties, LenProperties DEF FilesInv
  <1>4. /\ FilesInv'
        /\ Len(disk) \in Nat /\ Len(disk') \in Nat /\ Len(disk) <= Len(disk')
        /\ dir'[Live] \in 1 .. Len(disk')
        /\ \A name \in Name : dir[name] # NoFile \/ name # Live => dir'[name] = dir[name]
        /\ \A f \in DOMAIN disk : disk'[f] = disk[f]
        /\ dir[Live] = NoFile => disk'[dir'[Live]].data = << >>
        /\ dir[Live] # NoFile => UNCHANGED disk
        /\ \A name \in Name : EventsIn(name) \subseteq EventsIn(name)'
    BY <1>1, <1>3, OpenLive
  <1>5. WriterInv'
    <2>1. writer' \in [pc : {"down", "idle", "open", "half"}, file : 0 .. Len(disk')]
      BY <1>1, <1>4
    <2>2. writer'.file = dir'[Live] /\ writer'.file # NoFile
      BY <1>1, <1>4 DEF NoFile
    <2>3. ~events'[Len(events')].done
      BY <1>2, <1>3
    <2> QED
      BY <1>3, <2>1, <2>2, <2>3 DEF WriterInv
  <1>6. RotationInv'
    <2>1. rotation.pc = "compressed" =>
             \A name \in {Gz(1), Plain(1)} : disk'[dir[name]] = disk[dir[name]]
      BY <1>4, Names, DirFiles DEF RotationInv
    <2> QED
      BY <1>1, <1>4, <2>1, RotationFrame
  <1>7. TornInv'
    <2>1. Torn(dir[Live])' => dir[Live] # NoFile /\ Torn(dir[Live])
      BY <1>4, Names DEF Torn
    <2>2. ~Writing /\ Writing' /\ writer'.pc = "open" /\ writer'.file = dir'[Live]
      BY <1>1 DEF Writing
    <2>3. LastFailed => BeforeFailed'
      <3> SUFFICES ASSUME LastFailed PROVE BeforeFailed'
        OBVIOUS
      <3>1. Len(events) > 0 /\ ~events[Len(events)].done
        BY EmptySeq DEF LastFailed, FilesInv
      <3>2. Len(events') > 1 /\ Len(events') - 1 = Len(events) /\ Len(events) \in 1 .. Len(events)
        BY <1>3, <3>1
      <3> QED
        BY <1>3, <3>1, <3>2 DEF BeforeFailed
    <2>4. Torn(writer.file)' => Torn(dir[Live])'
      BY <2>2 DEF Torn
    <2> QED
      BY <2>1, <2>2, <2>3, <2>4 DEF TornInv
  <1>8. KeptInv'
    <2>1. Lasting' = Lasting /\ Lasting \subseteq Name
      BY <1>1 DEF Lasting
    <2> SUFFICES ASSUME NEW i \in DOMAIN events', events'[i].done
                 PROVE  \/ i \in deleted'
                        \/ \E name \in Lasting' : i \in EventsIn(name)'
                        \/ i > 1 /\ ~events'[i - 1].done
      BY DEF KeptInv
    <2>2. i \in 1 .. Len(events) /\ events[i].done
      BY <1>2, <1>3
    <2>3. i > 1 => events'[i - 1] = events[i - 1]
      BY <1>3, <2>2
    <2> QED
      BY <1>1, <1>3, <1>4, <2>1, <2>2, <2>3 DEF KeptInv
  <1> QED
    BY <1>4, <1>5, <1>6, <1>7, <1>8

\* What is appended to the open file.  Of the names that keep events readable,
\* one leads to it, and none to a file that logrotate is copying.
LEMMA WriteStep ==
    ASSUME LogInv, Writing, NEW more \in Seq(HalfLine), AppendTo(writer.file, more),
           UNCHANGED <<dir, rotation>>, events' \in Seq(Event)
    PROVE  /\ FilesInv' /\ RotationInv'
           /\ Len(disk') = Len(disk)
           /\ disk[writer.file].data \in Seq(HalfLine)
           /\ disk'[writer.file].data = disk[writer.file].data \o more
           /\ \A name \in Name : EventsIn(name) \subseteq EventsIn(name)'
           /\ \E name \in Lasting : dir[name] = writer.file
           /\ writer.file # NoFile
  <1> USE DEF LogInv
  <1> DEFINE x == [data |-> disk[writer.file].data \o more, mtime |-> Now]
  <1>1. /\ writer.file # NoFile
        /\ \/ writer.file = dir[Live]
           \/ rotation.pc \in {"idle", "delete"} /\ writer.file = dir[Plain(1)]
    BY DEF WriterInv
  <1>2. writer.file \in DOMAIN disk
    BY <1>1, Names, DirFiles
  <1>3. disk[writer.file].data \in Seq(HalfLine)
    BY <1>2 DEF FilesInv
  <1>4. x.data = disk[writer.file].data \o more /\ x.data \in Seq(HalfLine)
    BY <1>3, ConcatProperties
  <1>5. disk' = [disk EXCEPT ![writer.file] = x]
    BY DEF AppendTo
  <1> HIDE DEF x
  <1>6. /\ DOMAIN disk' = DOMAIN disk
        /\ Len(disk') = Len(disk)
        /\ disk' \in Seq(Range(disk'))
        /\ \A f \in DOMAIN disk : f # writer.file => disk'[f] = disk[f]
        /\ disk'[writer.file] = x
        /\ \A f \in DOMAIN disk' : disk'[f].data \in Seq(HalfLine)
    BY <1>2, <1>4, <1>5, DiskUpdate
  <1>7. FilesInv'
    BY <1>6 DEF FilesInv
  <1>8. RotationInv'
    <2>1. CASE rotation.pc = "compressed"
      <3>1. /\ Gz(1) \in Name /\ Plain(1) \in Name /\ Live \in Name
            /\ Gz(1) # Live /\ Plain(1) # Live
        BY Names
      <3>2. writer.file = dir[Live] /\ dir[Gz(1)] # NoFile /\ dir[Plain(1)] # NoFile
        BY <1>1, <2>1 DEF RotationInv
      <3>3. dir[Gz(1)] # writer.file /\ dir[Plain(1)] # writer.file
        BY <3>1, <3>2 DEF FilesInv
      <3>4. disk'[dir[Gz(1)]] = disk[dir[Gz(1)]] /\ disk'[dir[Plain(1)]] = disk[dir[Plain(1)]]
        BY <1>6, <3>1, <3>2, <3>3, DirFiles
      <3> QED
        BY <3>4, RotationFrame
    <2>2. CASE rotation.pc # "compressed"
      BY <2>2, RotationFrame
    <2> QED
      BY <2>1, <2>2
  <1>9. ASSUME NEW name \in Name PROVE EventsIn(name) \subseteq EventsIn(name)'
    <2>1. CASE dir[name] # writer.file
      BY <1>6, <2>1, DirFiles, SameFile
    <2>2. CASE dir[name] = writer.file
      <3> SUFFICES ASSUME NEW i \in GoodLines(disk[writer.file].data)
                   PROVE  \E j \in GoodLines(disk'[writer.file].data) :
                             disk'[writer.file].data[j].id = disk[writer.file].data[i].id
        BY <1>1, <2>2 DEF EventsIn
      <3> DEFINE d == disk[writer.file].data
      <3>1. i \in GoodLines(d \o more) /\ (d \o more)[i] = d[i]
        BY <1>3, GoodKept
      <3>2. disk'[writer.file].data = d \o more
        BY <1>4, <1>6
      <3> QED
        BY <3>1, <3>2
    <2> QED
      BY <2>1, <2>2
  <1>10. \E name \in Lasting : dir[name] = writer.file
    <2>1. Live \in Name /\ Plain(1) \in Name /\ Live # Gz(1) /\ Plain(1) # Gz(1)
      BY Names
    <2> QED
      BY <1>1, <2>1 DEF Lasting
  <1> QED
    BY <1>1, <1>3, <1>4, <1>6, <1>7, <1>8, <1>9, <1>10

\* What one or two half lines at the end of a file make of it.
AddedHalves(d, g, h) ==
    /\ Len(d) \in Nat
    /\ <<g>> \in Seq(HalfLine) /\ <<g>> # << >> /\ <<g>>[Len(<<g>>)] = g
    /\ <<g, h>> \in Seq(HalfLine) /\ <<g, h>> # << >> /\ <<g, h>>[Len(<<g, h>>)] = h
    /\ d \o <<g>> \in Seq(HalfLine) /\ d \o <<g, h>> \in Seq(HalfLine)
    /\ Len(d \o <<g>>) = Len(d) + 1 /\ Len(d \o <<g, h>>) = Len(d) + 2
    /\ \A j \in 1 .. Len(d) : (d \o <<g>>)[j] = d[j] /\ (d \o <<g, h>>)[j] = d[j]
    /\ (d \o <<g>>)[Len(d) + 1] = g
    /\ (d \o <<g, h>>)[Len(d) + 1] = g
    /\ (d \o <<g, h>>)[Len(d) + 2] = h

LEMMA AddHalves ==
    ASSUME NEW d \in Seq(HalfLine), NEW g \in HalfLine, NEW h \in HalfLine
    PROVE  AddedHalves(d, g, h)
  <1>1. Len(d) \in Nat
    BY LenProperties
  <1>2. /\ <<g>> \in Seq(HalfLine) /\ Len(<<g>>) = 1 /\ <<g>>[1] = g
        /\ <<g, h>> \in Seq(HalfLine) /\ Len(<<g, h>>) = 2 /\ <<g, h>>[1] = g /\ <<g, h>>[2] = h
    OBVIOUS
  <1>3. <<g>> # << >> /\ <<g, h>> # << >>
    BY <1>2, EmptySeq
  <1> DEFINE s == <<g>>
             t == <<g, h>>
  <1> HIDE DEF s, t
  <1>4. /\ d \o s \in Seq(HalfLine)
        /\ Len(d \o s) = Len(d) + Len(s)
        /\ \A i \in 1 .. Len(d) + Len(s) : (d \o s)[i] = IF i <= Len(d) THEN d[i] ELSE s[i - Len(d)]
    BY <1>2, ConcatProperties DEF s
  <1>5. /\ d \o t \in Seq(HalfLine)
        /\ Len(d \o t) = Len(d) + Len(t)
        /\ \A i \in 1 .. Len(d) + Len(t) : (d \o t)[i] = IF i <= Len(d) THEN d[i] ELSE t[i - Len(d)]
    BY <1>2, ConcatProperties DEF t
  <1>6. Len(s) = 1 /\ s[1] = g /\ Len(t) = 2 /\ t[1] = g /\ t[2] = h
    BY <1>2 DEF s, t
  <1>7. (d \o s)[Len(d) + 1] = g
    <2>1. Len(d) + 1 \in 1 .. Len(d) + Len(s) /\ ~(Len(d) + 1 <= Len(d)) /\ (Len(d) + 1) - Len(d) = 1
      BY <1>1, <1>6
    <2> QED
      BY <1>4, <1>6, <2>1
  <1>8. (d \o t)[Len(d) + 1] = g
    <2>1. Len(d) + 1 \in 1 .. Len(d) + Len(t) /\ ~(Len(d) + 1 <= Len(d)) /\ (Len(d) + 1) - Len(d) = 1
      BY <1>1, <1>6
    <2> QED
      BY <1>5, <1>6, <2>1
  <1>9. (d \o t)[Len(d) + 2] = h
    <2>1. Len(d) + 2 \in 1 .. Len(d) + Len(t) /\ ~(Len(d) + 2 <= Len(d)) /\ (Len(d) + 2) - Len(d) = 2
      BY <1>1, <1>6
    <2> QED
      BY <1>5, <1>6, <2>1
  <1>10. \A j \in 1 .. Len(d) : (d \o s)[j] = d[j] /\ (d \o t)[j] = d[j]
    BY <1>1, <1>4, <1>5, <1>6
  <1> QED
    BY <1>1, <1>2, <1>3, <1>4, <1>5, <1>6, <1>7, <1>8, <1>9, <1>10 DEF s, t, AddedHalves

\* The data of a line's end: it closes the line.
EndsLine(more) == more \in Seq(HalfLine) /\ more # << >> /\ more[Len(more)].half = 2

LEMMA ConcatEnds ==
    ASSUME NEW d \in Seq(HalfLine), NEW more, EndsLine(more)
    PROVE  /\ d \o more # << >>
           /\ (d \o more)[Len(d \o more)].half = 2
  <1>1. more \in Seq(HalfLine) /\ more # << >> /\ more[Len(more)].half = 2
    BY DEF EndsLine
  <1>2. PICK a : a = Len(d)
    OBVIOUS
  <1>3. PICK b : b = Len(more)
    OBVIOUS
  <1>4. PICK c : c = d \o more
    OBVIOUS
  <1>5. a \in Nat /\ b \in Nat /\ b # 0
    BY <1>1, <1>2, <1>3, EmptySeq, LenProperties
  <1>6. /\ c \in Seq(HalfLine) /\ Len(c) = a + b
        /\ \A i \in 1 .. a + b : c[i] = IF i <= a THEN d[i] ELSE more[i - a]
    BY ONLY <1>1, <1>2, <1>3, <1>4, d \in Seq(HalfLine), ConcatProperties
  <1>7. a + b \in 1 .. a + b /\ ~(a + b <= a) /\ (a + b) - a = b /\ a + b # 0
    BY ONLY <1>5
  <1>8. c[Len(c)] = more[b]
    BY ONLY <1>6, <1>7
  <1>9. c # << >>
    BY ONLY <1>6, <1>7, EmptySeq
  <1> QED
    BY ONLY <1>1, <1>3, <1>4, <1>8, <1>9

\* A whole line at the end of a file, and the second half of one.
LEMMA LineAtEnd ==
    ASSUME NEW d \in Seq(HalfLine), NEW id \in Nat, NEW g, NEW h,
           g = [id |-> id, half |-> 1], h = [id |-> id, half |-> 2]
    PROVE  /\ EndsLine(<<g, h>>) /\ EndsLine(<<h>>)
           /\ Len(d) = 0 \/ d[Len(d)].half = 2 => Reads(d \o <<g, h>>, id)
           /\ d # << >> /\ d[Len(d)] = g /\ (Len(d) = 1 \/ d[Len(d) - 1].half = 2)
                 => Reads(d \o <<h>>, id)
  <1>1. g \in HalfLine /\ h \in HalfLine /\ h.half = 2
    BY DEF HalfLine
  <1>2. PICK l : l = Len(d)
    OBVIOUS
  <1>3. PICK s : s = d \o <<h>>
    OBVIOUS
  <1>4. PICK t : t = d \o <<g, h>>
    OBVIOUS
  <1>5. /\ l \in Nat
        /\ <<h>> \in Seq(HalfLine) /\ <<h>> # << >> /\ <<h>>[Len(<<h>>)] = h
        /\ <<g, h>> \in Seq(HalfLine) /\ <<g, h>> # << >> /\ <<g, h>>[Len(<<g, h>>)] = h
        /\ s \in Seq(HalfLine) /\ Len(s) = l + 1
        /\ t \in Seq(HalfLine) /\ Len(t) = l + 2
        /\ \A j \in 1 .. l : s[j] = d[j] /\ t[j] = d[j]
        /\ s[l + 1] = h /\ t[l + 1] = g /\ t[l + 2] = h
    <2>1. AddedHalves(d, g, h) /\ AddedHalves(d, h, h)
      BY <1>1, AddHalves
    <2> QED
      BY ONLY <2>1, <1>2, <1>3, <1>4 DEF AddedHalves
  <1>6. EndsLine(<<g, h>>) /\ EndsLine(<<h>>)
    BY ONLY <1>1, <1>5 DEF EndsLine
  <1>7. /\ (l + 2) - 1 = l + 1 /\ (l + 2) - 2 = l /\ l + 2 > 1
        /\ l = 0 => l + 2 = 2
        /\ l # 0 => l \in 1 .. l
    BY ONLY <1>5
  <1>8. ASSUME l = 0 \/ d[l].half = 2 PROVE Reads(t, id)
    <2>1. Len(t) > 1 /\ t[Len(t)] = h /\ t[Len(t) - 1] = g
      BY ONLY <1>5, <1>7
    <2>2. Len(t) = 2 \/ t[Len(t) - 2].half = 2
      BY ONLY <1>5, <1>7, <1>8
    <2>3. t \in Seq(HalfLine)
      BY ONLY <1>5
    <2> QED
      BY <2>1, <2>2, <2>3, GoodAtEnd
  <1>9. ASSUME d # << >>, d[l] = g, l = 1 \/ d[l - 1].half = 2 PROVE Reads(s, id)
    <2>1. l # 0
      BY <1>2, <1>9, EmptySeq
    <2>2. /\ (l + 1) - 1 = l /\ (l + 1) - 2 = l - 1 /\ l + 1 > 1 /\ l \in 1 .. l
          /\ l = 1 => l + 1 = 2
          /\ l # 1 => l - 1 \in 1 .. l
      BY ONLY <1>5, <2>1
    <2>3. Len(s) > 1 /\ s[Len(s)] = h /\ s[Len(s) - 1] = g
      BY ONLY <1>5, <1>9, <2>2
    <2>4. Len(s) = 2 \/ s[Len(s) - 2].half = 2
      BY ONLY <1>5, <1>9, <2>2
    <2>5. s \in Seq(HalfLine)
      BY ONLY <1>5
    <2> QED
      BY <2>3, <2>4, <2>5, GoodAtEnd
  <1> QED
    BY <1>2, <1>3, <1>4, <1>6, <1>8, <1>9

\* log() returns.  Its line is good, or follows the rest of one that failed.
LEMMA WrittenKeeps ==
    ASSUME LogInv, Writing, NEW more, EndsLine(more), AppendTo(writer.file, more), Written,
           BeforeFailed \/ Reads(disk[writer.file].data \o more, Len(events))
    PROVE  LogInv'
  <1> USE DEF LogInv
  <1> DEFINE n == Len(events)
             data == disk[writer.file].data \o more
             e == [events[n] EXCEPT !.done = TRUE]
  <1>1. /\ events' = [events EXCEPT ![n].done = TRUE]
        /\ writer' = [pc |-> "idle", file |-> NoFile]
        /\ UNCHANGED <<dir, rotation, deleted>>
    BY DEF Written
  <1>2. n \in Nat /\ n > 0 /\ DOMAIN events = 1 .. n /\ n \in 1 .. n
    <2>1. events \in Seq(Event) /\ events # << >>
      BY DEF FilesInv, WriterInv
    <2> QED
      BY <2>1, EmptySeq, LenProperties
  <1>3. events[n] \in Event
    BY <1>2, ElementOfSeq DEF FilesInv
  <1>4. e \in Event /\ e.done /\ events' = [events EXCEPT ![n] = e]
    BY <1>1, <1>3 DEF Event
  <1> HIDE DEF e
  <1>5. /\ events' \in Seq(Event) /\ Len(events') = n
        /\ \A i \in 1 .. n : events'[i] = IF i = n THEN e ELSE events[i]
    BY <1>2, <1>4, ExceptSeq DEF FilesInv
  <1>6. DOMAIN events' = 1 .. n
    BY <1>5, LenProperties
  <1>7. /\ FilesInv' /\ RotationInv'
        /\ Len(disk') = Len(disk)
        /\ disk[writer.file].data \in Seq(HalfLine)
        /\ disk'[writer.file].data = data
        /\ \A name \in Name : EventsIn(name) \subseteq EventsIn(name)'
        /\ \E name \in Lasting : dir[name] = writer.file
        /\ writer.file # NoFile
    <2>1. more \in Seq(HalfLine)
      BY DEF EndsLine
    <2> QED
      BY <1>1, <1>5, <2>1, WriteStep
  <1>8. WriterInv'
    <2>1. Len(disk') \in Nat
      BY <1>7, LenProperties DEF FilesInv
    <2> QED
      BY <1>1, <2>1 DEF WriterInv, Writing, NoFile
  <1>9. data[Len(data)].half = 2 /\ data # << >>
    BY <1>7, ConcatEnds
  <1>10. TornInv'
    <2>1. writer.file = dir[Live] \/ dir[Live] = NoFile
      BY DEF WriterInv
    <2>3. dir[Live] # NoFile => ~Torn(dir[Live])'
      <3> HIDE DEF data
      <3>1. (disk'[writer.file].data)[Len(disk'[writer.file].data)].half # 1
        BY <1>7, <1>9
      <3> QED
        BY <1>1, <2>1, <3>1 DEF Torn
    <2> QED
      BY <1>1, <2>3 DEF TornInv, Writing
  <1>11. KeptInv'
    <2>1. Lasting' = Lasting /\ Lasting \subseteq Name
      BY <1>1 DEF Lasting
    <2> SUFFICES ASSUME NEW i \in 1 .. n, events'[i].done
                 PROVE  \/ i \in deleted'
                        \/ \E name \in Lasting' : i \in EventsIn(name)'
                        \/ i > 1 /\ ~events'[i - 1].done
      BY <1>6 DEF KeptInv
    <2>2. CASE i = n
      <3>1. CASE BeforeFailed
        <4>1. n > 1 /\ ~events[n - 1].done
          BY <3>1 DEF BeforeFailed
        <4>2. n - 1 \in 1 .. n /\ n - 1 # n
          <5>1. n \in Nat /\ n > 1
            BY <1>2, <4>1
          <5> HIDE DEF n
          <5> QED
            BY <5>1
        <4> QED
          BY <1>5, <2>2, <4>1, <4>2
      <3>2. CASE Reads(data, n)
        <4>1. PICK name \in Lasting : dir[name] = writer.file
          BY <1>7
        <4>2. dir'[name] = writer.file
          BY <1>1, <4>1
        <4>3. n \in EventsIn(name)'
          BY <1>7, <3>2, <4>2 DEF EventsIn, Reads
        <4> QED
          BY <2>1, <2>2, <4>3
      <3> QED
        BY <3>1, <3>2
    <2>3. CASE i # n
      <3>1. events[i].done
        BY <1>5, <2>3
      <3>2. i > 1 => events'[i - 1] = events[i - 1]
        <4>1. i > 1 => i - 1 \in 1 .. n /\ i - 1 # n
          BY <1>2
        <4> QED
          BY <1>5, <4>1
      <3> QED
        BY <1>1, <1>2, <1>7, <2>1, <3>1, <3>2 DEF KeptInv
    <2> QED
      BY <2>2, <2>3
  <1> QED
    BY <1>7, <1>8, <1>10, <1>11

\* The halves of the line that is being written.
LEMMA Halves ==
    ASSUME FilesInv, WriterInv, Writing
    PROVE  /\ Len(events) \in Nat
           /\ Half(1) \in HalfLine /\ Half(2) \in HalfLine
           /\ Half(1) = [id |-> Len(events), half |-> 1]
           /\ Half(2) = [id |-> Len(events), half |-> 2]
           /\ disk[writer.file].data \in Seq(HalfLine)
  <1>1. Len(events) \in Nat
    BY LenProperties DEF FilesInv
  <1>2. writer.file \in DOMAIN disk
    BY Names, DirFiles DEF WriterInv
  <1> QED
    BY <1>1, <1>2 DEF Half, HalfLine, FilesInv

\* A file that is empty, or ends with a second half.
LEMMA NotTorn ==
    ASSUME NEW f, disk[f].data \in Seq(HalfLine), ~Torn(f)
    PROVE  Len(disk[f].data) = 0 \/ disk[f].data[Len(disk[f].data)].half = 2
  <1> DEFINE d == disk[f].data
  <1>1. CASE d = << >>
    BY <1>1, EmptySeq
  <1>2. CASE d # << >>
    <2>1. Len(d) \in 1 .. Len(d)
      BY <1>2, EmptySeq
    <2>2. d[Len(d)] \in HalfLine
      BY <2>1, ElementOfSeq
    <2> QED
      BY <1>2, <2>2 DEF HalfLine, Torn
  <1> QED
    BY <1>1, <1>2

\* The whole line is written at once.
LEMMA WriteLineKeeps == LogInv /\ WriteLine => LogInv'
  <1> SUFFICES ASSUME LogInv, WriteLine PROVE LogInv'
    OBVIOUS
  <1> USE DEF LogInv
  <1> DEFINE d == disk[writer.file].data
             more == <<Half(1), Half(2)>>
             data == d \o more
  <1>1. writer.pc = "open" /\ AppendTo(writer.file, more) /\ Written /\ Writing
    BY DEF WriteLine, Writing
  <1>2. /\ Len(events) \in Nat
        /\ Half(1) \in HalfLine /\ Half(2) \in HalfLine
        /\ Half(1) = [id |-> Len(events), half |-> 1]
        /\ Half(2) = [id |-> Len(events), half |-> 2]
        /\ d \in Seq(HalfLine)
    BY <1>1, Halves
  <1>3. ~BeforeFailed => Len(d) = 0 \/ d[Len(d)].half = 2
    BY <1>1, <1>2, NotTorn DEF TornInv
  <1> HIDE DEF d
  <1>4. EndsLine(more) /\ (Len(d) = 0 \/ d[Len(d)].half = 2 => Reads(data, Len(events)))
    BY ONLY <1>2, LineAtEnd
  <1>5. BeforeFailed \/ Reads(data, Len(events))
    BY <1>3, <1>4
  <1> HIDE DEF more
  <1> QED
    BY <1>1, <1>4, <1>5, WrittenKeeps DEF d

\* A long line is written in pieces.
LEMMA WriteHeadKeeps == LogInv /\ WriteHead => LogInv'
  <1> SUFFICES ASSUME LogInv, WriteHead PROVE LogInv'
    OBVIOUS
  <1> USE DEF LogInv
  <1> DEFINE d == disk[writer.file].data
             more == <<Half(1)>>
             data == d \o more
  <1>1. /\ writer.pc = "open" /\ AppendTo(writer.file, more) /\ Writing
        /\ writer' = [writer EXCEPT !.pc = "half"]
        /\ UNCHANGED <<events, dir, rotation, deleted>>
    BY DEF WriteHead, Writing
  <1>2. /\ Len(events) \in Nat
        /\ Half(1) \in HalfLine
        /\ d \in Seq(HalfLine)
    BY <1>1, Halves
  <1>3. /\ Len(d) \in Nat
        /\ more \in Seq(HalfLine)
        /\ data \in Seq(HalfLine) /\ Len(data) = Len(d) + 1
        /\ \A j \in 1 .. Len(d) : data[j] = d[j]
        /\ data[Len(d) + 1] = Half(1)
    BY <1>2, AddHalves
  <1> HIDE DEF more
  <1>4. /\ FilesInv' /\ RotationInv'
        /\ Len(disk') = Len(disk)
        /\ disk'[writer.file].data = data
        /\ \A name \in Name : EventsIn(name) \subseteq EventsIn(name)'
    BY <1>1, <1>3, WriteStep DEF FilesInv
  <1>5. writer'.pc = "half" /\ writer'.file = writer.file /\ Writing'
    BY <1>1 DEF WriterInv, Writing
  <1>6. WriterInv'
    BY <1>1, <1>4, <1>5 DEF WriterInv
  <1>7. TornInv'
    <2>1. ~BeforeFailed => Len(d) = 0 \/ d[Len(d)].half = 2
      BY <1>1, <1>2, NotTorn DEF TornInv
    <2>2. Half(1)' = Half(1) /\ BeforeFailed' = BeforeFailed
      BY <1>1 DEF Half, BeforeFailed
    <2> HIDE DEF data, d
    <2>3. data # << >> /\ data[Len(data)] = Half(1)
      BY <1>3, EmptySeq
    <2>4. Len(data) - 1 = Len(d)
      BY <1>3
    <2>5. Len(data) = 1 \/ data[Len(data) - 1].half = 2 \/ BeforeFailed
      BY <1>3, <2>1, <2>4
    <2> QED
      BY <1>4, <1>5, <2>2, <2>3, <2>5 DEF TornInv
  <1>8. KeptInv'
    <2>1. Lasting' = Lasting /\ Lasting \subseteq Name
      BY <1>1 DEF Lasting
    <2> QED
      BY <1>1, <1>4, <2>1, KeptFrame
  <1> QED
    BY <1>4, <1>6, <1>7, <1>8

\* The rest of a long line is written.
LEMMA WriteTailKeeps == LogInv /\ WriteTail => LogInv'
  <1> SUFFICES ASSUME LogInv, WriteTail PROVE LogInv'
    OBVIOUS
  <1> USE DEF LogInv
  <1> DEFINE d == disk[writer.file].data
             more == <<Half(2)>>
             data == d \o more
  <1>1. writer.pc = "half" /\ AppendTo(writer.file, more) /\ Written /\ Writing
    BY DEF WriteTail, Writing
  <1>2. /\ Len(events) \in Nat
        /\ Half(1) = [id |-> Len(events), half |-> 1]
        /\ Half(2) = [id |-> Len(events), half |-> 2]
        /\ Half(2) \in HalfLine
        /\ d \in Seq(HalfLine)
    BY <1>1, Halves
  <1>3. ~BeforeFailed => d # << >> /\ d[Len(d)] = Half(1) /\ (Len(d) = 1 \/ d[Len(d) - 1].half = 2)
    BY <1>1 DEF TornInv
  <1> HIDE DEF d
  <1>4. /\ EndsLine(more)
        /\ d # << >> /\ d[Len(d)] = Half(1) /\ (Len(d) = 1 \/ d[Len(d) - 1].half = 2)
              => Reads(data, Len(events))
    BY ONLY <1>2, LineAtEnd
  <1>5. BeforeFailed \/ Reads(data, Len(events))
    BY <1>3, <1>4
  <1> HIDE DEF more
  <1> QED
    BY <1>1, <1>4, <1>5, WrittenKeeps DEF d

\* The process dies, or a write fails: what was written stays.
LEMMA FaultKeeps == LogInv /\ (WriteFails \/ Crash) => LogInv'
  <1> SUFFICES ASSUME LogInv, WriteFails \/ Crash PROVE LogInv'
    OBVIOUS
  <1> USE DEF LogInv
  <1>1. /\ UNCHANGED <<events, dir, disk, rotation, deleted>>
        /\ writer'.pc \in {"idle", "down"} /\ writer' = [pc |-> writer'.pc, file |-> NoFile]
        /\ ~Writing'
    BY DEF WriteFails, Crash, Writing
  <1>2. FilesInv' /\ RotationInv'
    BY <1>1 DEF FilesInv, RotationInv
  <1>3. WriterInv'
    <2>1. Len(disk) \in Nat
      BY LenProperties DEF FilesInv
    <2>2. writer' \in [pc : {"down", "idle", "open", "half"}, file : 0 .. Len(disk')]
      BY <1>1, <2>1 DEF NoFile
    <2> QED
      BY <1>1, <2>2 DEF WriterInv
  <1>4. TornInv'
    <2>1. LastFailed' = LastFailed /\ Torn(dir[Live])' = Torn(dir[Live])
      BY <1>1 DEF LastFailed, Torn
    <2>2. Writing => LastFailed
      BY DEF WriterInv, LastFailed
    <2> QED
      BY <1>1, <2>1, <2>2 DEF TornInv, Writing
  <1>5. KeptInv'
    BY <1>1 DEF KeptInv, Lasting, EventsIn
  <1> QED
    BY <1>2, <1>3, <1>4, <1>5

-----------------------------------------------------------------------------
(* The steps of logrotate.                                                  *)

\* A step of logrotate that leaves the live log in place disturbs no writer.
LEMMA WriterFrame ==
    ASSUME FilesInv, WriterInv, TornInv, UNCHANGED <<events, writer>>,
           dir'[Live] = dir[Live],
           Len(disk') \in Nat, Len(disk) <= Len(disk'),
           dir[Live] # NoFile => disk'[dir[Live]].data = disk[dir[Live]].data,
           Writing => /\ disk'[writer.file].data = disk[writer.file].data
                      /\ \/ writer.file = dir[Live]
                         \/ dir'[Plain(1)] = dir[Plain(1)] /\ rotation'.pc \in {"idle", "delete"}
    PROVE  WriterInv' /\ TornInv'
  <1>1. Len(disk) \in Nat
    BY LenProperties DEF FilesInv
  <1>2. WriterInv'
    <2>1. writer' \in [pc : {"down", "idle", "open", "half"}, file : 0 .. Len(disk')]
      BY <1>1 DEF WriterInv
    <2>2. Writing' = Writing
      BY DEF Writing
    <2>3. ASSUME Writing
          PROVE  \/ writer.file = dir'[Live]
                 \/ /\ rotation'.pc \in {"idle", "delete"}
                    /\ writer.file = dir'[Plain(1)]
                    /\ dir'[Live] = NoFile
      BY <2>3 DEF WriterInv
    <2> QED
      BY <2>1, <2>2, <2>3 DEF WriterInv
  <1>3. TornInv'
    <2>1. /\ Writing' = Writing /\ LastFailed' = LastFailed /\ BeforeFailed' = BeforeFailed
          /\ Half(1)' = Half(1)
      BY DEF Writing, LastFailed, BeforeFailed, Half
    <2>2. dir[Live] # NoFile => Torn(dir[Live])' = Torn(dir[Live])
      BY DEF Torn
    <2>3. Writing => Torn(writer.file)' = Torn(writer.file)
      BY DEF Torn
    <2>4. writer.pc \in {"open", "half"} => Writing
      BY DEF Writing
    <2> QED
      BY <2>1, <2>2, <2>3, <2>4 DEF TornInv
  <1> QED
    BY <1>2, <1>3

\* What a step does to the state of the rotation.
LEMMA RotationTo ==
    ASSUME RotationInv, NEW pc, NEW k \in 0 .. Keep,
           rotation' = [rotation EXCEPT !.pc = pc, !.k = k]
    PROVE  rotation'.pc = pc /\ rotation'.k = k /\ rotation' \in [pc : {pc}, k : 0 .. Keep, count : Nat]
  <1> DEFINE States == {"idle", "compress", "compressing", "compressed", "shift", "delete"}
             Steps == 0 .. Keep
  <1>1. rotation \in [pc : States, k : Steps, count : Nat] /\ k \in Steps
    BY DEF RotationInv
  <1> HIDE DEF States, Steps
  <1>2. rotation' \in [pc : {pc}, k : Steps, count : Nat] /\ rotation'.pc = pc /\ rotation'.k = k
    BY <1>1
  <1> QED
    BY <1>2 DEF Steps

\* Nothing is lost by renaming a file to a name that is free.
LEMMA MoveFiles ==
    ASSUME FilesInv, NEW from \in Name, NEW to \in Name, from # to, dir[to] = NoFile,
           dir' = Move(from, to), UNCHANGED <<events, disk>>
    PROVE  /\ FilesInv'
           /\ dir'[from] = NoFile /\ dir'[to] = dir[from]
           /\ \A name \in Name : name # from /\ name # to => dir'[name] = dir[name]
           /\ \A name \in Name : \E m \in Name : EventsIn(m)' = EventsIn(name)
  <1>0. Len(disk) \in Nat /\ dir \in [Name -> 0 .. Len(disk)]
    BY LenProperties DEF FilesInv
  <1>1. /\ dir'[from] = NoFile /\ dir'[to] = dir[from]
        /\ \A name \in Name : name # from /\ name # to => dir'[name] = dir[name]
    BY <1>0 DEF Move
  <1>2. dir' \in [Name -> 0 .. Len(disk')]
    BY <1>0 DEF Move, NoFile
  <1>3. \A a, b \in Name : dir'[a] = dir'[b] => a = b \/ dir'[a] = NoFile
    BY <1>1 DEF FilesInv
  <1>4. FilesInv'
    BY <1>2, <1>3 DEF FilesInv
  <1>5. ASSUME NEW name \in Name PROVE \E m \in Name : EventsIn(m)' = EventsIn(name)
    <2>1. CASE name = from
      <3>1. EventsIn(to)' = EventsIn(from)
        BY <1>1, SameFile
      <3> QED
        BY <2>1, <3>1
    <2>2. CASE name = to
      <3>1. EventsIn(from)' = EventsIn(to)
        BY <1>1, SameFile
      <3> QED
        BY <2>2, <3>1
    <2>3. CASE name # from /\ name # to
      <3>1. EventsIn(name)' = EventsIn(name)
        BY <1>1, <2>3, SameFile
      <3> QED
        BY <3>1
    <2> QED
      BY <2>1, <2>2, <2>3
  <1> QED
    BY <1>1, <1>4, <1>5

\* A name is removed.
LEMMA RemoveName ==
    ASSUME FilesInv, NEW n \in Name, dir' = [dir EXCEPT ![n] = NoFile], UNCHANGED <<events, disk>>
    PROVE  /\ FilesInv'
           /\ dir'[n] = NoFile
           /\ \A name \in Name : name # n => dir'[name] = dir[name] /\ EventsIn(name)' = EventsIn(name)
  <1>0. Len(disk) \in Nat /\ dir \in [Name -> 0 .. Len(disk)]
    BY LenProperties DEF FilesInv
  <1>1. dir'[n] = NoFile /\ \A name \in Name : name # n => dir'[name] = dir[name]
    BY <1>0
  <1>2. dir' \in [Name -> 0 .. Len(disk')]
    BY <1>0 DEF NoFile
  <1>3. \A a, b \in Name : dir'[a] = dir'[b] => a = b \/ dir'[a] = NoFile
    BY <1>1 DEF FilesInv
  <1>4. FilesInv'
    BY <1>2, <1>3 DEF FilesInv
  <1>5. \A name \in Name : name # n => EventsIn(name)' = EventsIn(name)
    BY <1>1, SameFile
  <1> QED
    BY <1>1, <1>4, <1>5

\* A rotation starts: every name it will move a file to is free, and no log() has
\* yesterday's log open.
LEMMA StartRotationKeeps == LogInv /\ StartRotation => LogInv'
  <1> SUFFICES ASSUME LogInv, StartRotation PROVE LogInv'
    OBVIOUS
  <1> USE DEF LogInv
  <1>1. /\ rotation.pc = "idle"
        /\ rotation'.pc = (IF dir[Plain(1)] # NoFile THEN "compress" ELSE "shift")
        /\ rotation'.k = Keep
        /\ rotation' \in [pc : {"compress", "shift"}, k : 0 .. Keep, count : Nat]
        /\ Writing => writer.file = dir[Live]
        /\ UNCHANGED <<events, dir, disk, writer, deleted>>
    <2> DEFINE pc == IF dir[Plain(1)] # NoFile THEN "compress" ELSE "shift"
    <2>1. /\ rotation.pc = "idle"
          /\ rotation' = [rotation EXCEPT !.pc = pc, !.k = Keep, !.count = rotation.count + 1]
          /\ Writing => writer.file = dir[Live]
          /\ UNCHANGED <<events, dir, disk, writer, deleted>>
      BY DEF StartRotation, Writing
    <2>2. Keep \in 0 .. Keep /\ pc \in {"compress", "shift"}
      BY Names
    <2>3. rotation.count \in Nat /\ rotation.count + 1 \in Nat
      BY DEF RotationInv
    <2> DEFINE States == {"idle", "compress", "compressing", "compressed", "shift", "delete"}
               Steps == 0 .. Keep
    <2>4. rotation \in [pc : States, k : Steps, count : Nat] /\ Keep \in Steps
      BY <2>2 DEF RotationInv
    <2> HIDE DEF States, Steps, pc
    <2>5. /\ rotation' \in [pc : {"compress", "shift"}, k : Steps, count : Nat]
          /\ rotation'.pc = pc /\ rotation'.k = Keep
      BY <2>1, <2>2, <2>3, <2>4
    <2> QED
      BY <2>1, <2>5 DEF Steps, pc
  <1>2. FilesInv'
    BY <1>1 DEF FilesInv
  <1>3. WriterInv' /\ TornInv'
    BY <1>1, LenProperties, WriterFrame DEF FilesInv
  <1>4. RotationInv'
    BY <1>1 DEF RotationInv
  <1>5. KeptInv'
    <2>1. Lasting = Name /\ Lasting' = Name
      BY <1>1 DEF Lasting
    <2>2. \A name \in Name : EventsIn(name)' = EventsIn(name)
      BY <1>1, SameFile
    <2> QED
      BY <1>1, <2>1, <2>2, KeptFrame
  <1> QED
    BY <1>2, <1>3, <1>4, <1>5

\* The copy that grows is a new file; no event depends on it yet.
LEMMA CompressKeeps ==
    ASSUME LogInv, NEW size \in Nat, Compress(size)
    PROVE  LogInv'
  <1> USE DEF LogInv
  <1> DEFINE old == disk[dir[Plain(1)]].data
             x == [data |-> SubSeq(old, 1, size), mtime |-> Now]
  <1>1. /\ rotation.pc = "compress" /\ size < Len(old)
        /\ disk' = Append(disk, x)
        /\ dir' = [dir EXCEPT ![Gz(1)] = Len(disk) + 1]
        /\ rotation' = [rotation EXCEPT !.pc = "compressing", !.k = Keep]
        /\ UNCHANGED <<events, writer, deleted>>
    BY DEF Compress, Rotates
  <1>2. /\ Gz(1) \in Name /\ Live \in Name /\ Plain(1) \in Name
        /\ Gz(1) # Live /\ Gz(1) # Plain(1) /\ Gz(Keep + 1) # Gz(1)
        /\ Gz(Keep + 1) \in Name /\ Keep \in Nat
    BY Names
  <1>3. dir[Gz(1)] = NoFile /\ dir[Plain(1)] # NoFile /\ dir[Gz(Keep + 1)] = NoFile
    BY <1>1 DEF RotationInv
  <1>4. old \in Seq(HalfLine)
    BY <1>2, <1>3, DirFiles DEF FilesInv
  <1>5. x.data \in Seq(HalfLine)
    <2>1. Len(old) \in Nat
      BY <1>4, LenProperties
    <2>2. \A i \in 1 .. size : i \in 1 .. Len(old)
      BY <1>1, <2>1
    <2>3. \A i \in 1 .. size : old[i] \in HalfLine
      BY <1>4, <2>2, ElementOfSeq
    <2> HIDE DEF old
    <2>4. SubSeq(old, 1, size) \in Seq(HalfLine)
      BY <2>3, SubSeqProperties
    <2> QED
      BY <2>4
  <1> HIDE DEF x
  <1>6. /\ Len(disk) \in Nat
        /\ DOMAIN disk = 1 .. Len(disk)
        /\ DOMAIN disk' = 1 .. (Len(disk) + 1)
        /\ Len(disk') = Len(disk) + 1
        /\ disk' \in Seq(Range(disk'))
        /\ \A f \in 1 .. Len(disk) : disk'[f] = disk[f]
        /\ \A f \in DOMAIN disk' : disk'[f].data \in Seq(HalfLine)
    BY <1>1, <1>5, DiskAppend
  <1>7. /\ dir \in [Name -> 0 .. Len(disk)]
        /\ dir'[Gz(1)] = Len(disk) + 1
        /\ \A name \in Name : name # Gz(1) => dir'[name] = dir[name]
    BY <1>1, <1>2 DEF FilesInv
  <1>8. FilesInv'
    <2>1. dir' \in [Name -> 0 .. Len(disk')]
      <3>1. \A name \in Name : dir'[name] \in 0 .. (Len(disk) + 1)
        BY <1>6, <1>7
      <3> QED
        BY <1>1, <1>6, <1>7, <3>1
    <2>2. \A name \in Name : name # Gz(1) => dir'[name] # Len(disk) + 1
      BY <1>6, <1>7
    <2>3. \A a, b \in Name : dir'[a] = dir'[b] => a = b \/ dir'[a] = NoFile
      BY <1>7, <2>2 DEF FilesInv
    <2> QED
      BY <1>1, <1>6, <2>1, <2>3 DEF FilesInv
  <1>9. WriterInv' /\ TornInv'
    <2>1. Writing => writer.file = dir[Live] /\ writer.file # NoFile
      BY <1>1 DEF WriterInv
    <2>2. dir[Live] # NoFile => disk'[dir[Live]] = disk[dir[Live]]
      BY <1>2, <1>6, DirFiles
    <2>3. dir'[Live] = dir[Live]
      BY <1>2, <1>7
    <2>4. Len(disk') \in Nat /\ Len(disk) <= Len(disk')
      BY <1>6
    <2> QED
      BY <1>1, <2>1, <2>2, <2>3, <2>4, WriterFrame
  <1>10. RotationInv'
    <2>1. rotation'.pc = "compressing" /\ rotation' \in [pc : {"compressing"}, k : 0 .. Keep, count : Nat]
      <3>1. Keep \in 0 .. Keep
        BY <1>2
      <3> QED
        BY <1>1, <3>1, RotationTo
    <2>2. /\ dir'[Gz(1)] # NoFile /\ dir'[Plain(1)] = dir[Plain(1)]
          /\ dir'[Gz(Keep + 1)] = dir[Gz(Keep + 1)]
      BY <1>2, <1>6, <1>7 DEF NoFile
    <2> QED
      BY <1>3, <2>1, <2>2 DEF RotationInv
  <1>11. KeptInv'
    <2>1. Lasting = Name /\ Lasting' = Name \ {Gz(1)}
      BY <1>1 DEF Lasting, RotationInv
    <2>2. ASSUME NEW name \in Name, name # Gz(1) PROVE EventsIn(name)' = EventsIn(name)
      BY <1>6, <1>7, <2>2, DirFiles, SameFile
    <2>3. EventsIn(Gz(1)) = {}
      BY <1>3 DEF EventsIn
    <2> QED
      BY <1>1, <2>1, <2>2, <2>3, KeptFrame
  <1> QED
    BY <1>8, <1>9, <1>10, <1>11

\* The compressed copy holds all of the log.
LEMMA CompressedKeeps == LogInv /\ Compressed => LogInv'
  <1> SUFFICES ASSUME LogInv, Compressed PROVE LogInv'
    OBVIOUS
  <1> USE DEF LogInv
  <1> DEFINE x == disk[dir[Plain(1)]]
  <1>1. /\ rotation.pc = "compressing"
        /\ disk' = [disk EXCEPT ![dir[Gz(1)]] = x]
        /\ rotation' = [rotation EXCEPT !.pc = "compressed", !.k = Keep]
        /\ UNCHANGED <<events, dir, writer, deleted>>
    BY DEF Compressed, Rotates
  <1>2. /\ Gz(1) \in Name /\ Live \in Name /\ Plain(1) \in Name
        /\ Gz(1) # Live /\ Gz(1) # Plain(1) /\ Keep \in Nat
    BY Names
  <1>3. dir[Gz(1)] # NoFile /\ dir[Plain(1)] # NoFile /\ dir[Gz(Keep + 1)] = NoFile
    BY <1>1 DEF RotationInv
  <1>4. dir[Gz(1)] \in DOMAIN disk /\ x.data \in Seq(HalfLine)
    BY <1>2, <1>3, DirFiles DEF FilesInv
  <1>5. /\ Len(disk) \in Nat
        /\ DOMAIN disk' = DOMAIN disk
        /\ Len(disk') = Len(disk)
        /\ disk' \in Seq(Range(disk'))
        /\ \A f \in DOMAIN disk : f # dir[Gz(1)] => disk'[f] = disk[f]
        /\ disk'[dir[Gz(1)]] = x
        /\ \A f \in DOMAIN disk' : disk'[f].data \in Seq(HalfLine)
    BY <1>1, <1>4, DiskUpdate
  <1>6. FilesInv'
    BY <1>1, <1>5 DEF FilesInv
  <1>7. ASSUME NEW name \in Name, name # Gz(1), dir[name] # NoFile
        PROVE  disk'[dir[name]] = disk[dir[name]]
    <2>1. dir[name] # dir[Gz(1)]
      BY <1>2, <1>3, <1>7 DEF FilesInv
    <2> QED
      BY <1>5, <1>7, <2>1, DirFiles
  <1>8. WriterInv' /\ TornInv'
    <2>1. Writing => writer.file = dir[Live] /\ writer.file # NoFile
      BY <1>1 DEF WriterInv
    <2>2. dir[Live] # NoFile => disk'[dir[Live]] = disk[dir[Live]]
      BY <1>2, <1>7
    <2> QED
      BY <1>1, <1>5, <2>1, <2>2, WriterFrame
  <1>9. RotationInv'
    <2>1. rotation'.pc = "compressed" /\ rotation' \in [pc : {"compressed"}, k : 0 .. Keep, count : Nat]
      <3>1. Keep \in 0 .. Keep
        BY <1>2
      <3> QED
        BY <1>1, <3>1, RotationTo
    <2>2. disk'[dir[Gz(1)]] = disk'[dir[Plain(1)]]
      BY <1>2, <1>3, <1>5, <1>7
    <2> QED
      BY <1>1, <1>3, <2>1, <2>2 DEF RotationInv
  <1>10. KeptInv'
    <2>1. Lasting = Name \ {Gz(1)} /\ Lasting' = Name
      BY <1>1 DEF Lasting, RotationInv
    <2>2. \A name \in Name : name # Gz(1) => EventsIn(name)' = EventsIn(name)
      BY <1>1, <1>7, SameFile
    <2> QED
      BY <1>1, <2>1, <2>2, KeptFrame
  <1> QED
    BY <1>6, <1>8, <1>9, <1>10

\* The log is removed once its compressed copy is whole.
LEMMA RemovePlainKeeps == LogInv /\ RemovePlain => LogInv'
  <1> SUFFICES ASSUME LogInv, RemovePlain PROVE LogInv'
    OBVIOUS
  <1> USE DEF LogInv
  <1>1. /\ rotation.pc = "compressed"
        /\ dir' = [dir EXCEPT ![Plain(1)] = NoFile]
        /\ rotation' = [rotation EXCEPT !.pc = "shift", !.k = Keep]
        /\ UNCHANGED <<events, disk, writer, deleted>>
    BY DEF RemovePlain, Rotates
  <1>2. /\ Gz(1) \in Name /\ Live \in Name /\ Plain(1) \in Name
        /\ Gz(1) # Plain(1) /\ Live # Plain(1) /\ Keep \in Nat
        /\ Gz(Keep + 1) \in Name /\ Gz(Keep + 1) # Plain(1)
    BY Names
  <1>3. /\ FilesInv'
        /\ dir'[Plain(1)] = NoFile
        /\ \A name \in Name : name # Plain(1) => dir'[name] = dir[name] /\ EventsIn(name)' = EventsIn(name)
    BY <1>1, <1>2, RemoveName
  <1>4. WriterInv' /\ TornInv'
    <2>1. Writing => writer.file = dir[Live]
      BY <1>1 DEF WriterInv
    <2>2. dir'[Live] = dir[Live] /\ Len(disk) \in Nat
      BY <1>2, <1>3, LenProperties DEF FilesInv
    <2> QED
      BY <1>1, <2>1, <2>2, WriterFrame
  <1>5. RotationInv'
    <2>1. /\ rotation'.pc = "shift" /\ rotation'.k = Keep
          /\ rotation' \in [pc : {"shift"}, k : 0 .. Keep, count : Nat]
      <3>1. Keep \in 0 .. Keep
        BY <1>2
      <3> QED
        BY <1>1, <3>1, RotationTo
    <2>2. dir'[Gz(Keep + 1)] = NoFile
      BY <1>1, <1>2, <1>3 DEF RotationInv
    <2> QED
      BY <1>3, <2>1, <2>2 DEF RotationInv
  <1>6. KeptInv'
    <2>1. Lasting = Name /\ Lasting' = Name
      BY <1>1 DEF Lasting, RotationInv
    <2>2. EventsIn(Plain(1)) = EventsIn(Gz(1))
      BY <1>1 DEF EventsIn, RotationInv
    <2> QED
      BY <1>1, <1>2, <1>3, <2>1, <2>2, KeptFrame
  <1> QED
    BY <1>3, <1>4, <1>5, <1>6

\* Each compressed log moves to the next number, the oldest first.
LEMMA ShiftKeeps == LogInv /\ Shift => LogInv'
  <1> SUFFICES ASSUME LogInv, Shift PROVE LogInv'
    OBVIOUS
  <1> USE DEF LogInv
  <1> DEFINE k == rotation.k
  <1>1. /\ rotation.pc = "shift" /\ k > 0
        /\ dir' = Move(Gz(k), Gz(k + 1))
        /\ rotation' = [rotation EXCEPT !.pc = "shift", !.k = k - 1]
        /\ UNCHANGED <<events, disk, writer, deleted>>
    BY DEF Shift, Rotates
  <1>2. k \in 1 .. Keep /\ k \in 0 .. Keep + 1 /\ k + 1 \in 0 .. Keep + 1 /\ k \in Nat
    BY <1>1, Names DEF RotationInv
  <1>3. /\ Gz(k) \in Name /\ Gz(k + 1) \in Name /\ Gz(k) # Gz(k + 1)
        /\ Live \in Name /\ Plain(1) \in Name
        /\ Gz(k) # Live /\ Gz(k + 1) # Live /\ Gz(k) # Plain(1) /\ Gz(k + 1) # Plain(1)
    <2>1. k # k + 1
      BY <1>2
    <2> QED
      BY <1>2, <2>1, Names
  <1>4. dir[Gz(k + 1)] = NoFile /\ dir[Plain(1)] = NoFile
    BY <1>1 DEF RotationInv
  <1>5. /\ FilesInv'
        /\ dir'[Gz(k)] = NoFile
        /\ dir'[Live] = dir[Live] /\ dir'[Plain(1)] = dir[Plain(1)]
        /\ \A name \in Name : \E m \in Name : EventsIn(m)' = EventsIn(name)
    BY <1>1, <1>3, <1>4, MoveFiles
  <1>6. WriterInv' /\ TornInv'
    <2>1. Writing => writer.file = dir[Live]
      BY <1>1 DEF WriterInv
    <2>2. Len(disk) \in Nat
      BY LenProperties DEF FilesInv
    <2> QED
      BY <1>1, <1>5, <2>1, <2>2, WriterFrame
  <1>7. RotationInv'
    <2>1. /\ rotation'.pc = "shift" /\ rotation'.k = k - 1
          /\ rotation' \in [pc : {"shift"}, k : 0 .. Keep, count : Nat]
      <3>1. k - 1 \in 0 .. Keep
        BY <1>2, Names
      <3> QED
        BY <1>1, <3>1, RotationTo
    <2>2. (k - 1) + 1 = k
      BY <1>2
    <2> QED
      BY <1>4, <1>5, <2>1, <2>2 DEF RotationInv
  <1>8. KeptInv'
    <2>1. Lasting = Name /\ Lasting' = Name
      BY <1>1 DEF Lasting, RotationInv
    <2> QED
      BY <1>1, <1>5, <2>1, KeptFrame
  <1> QED
    BY <1>5, <1>6, <1>7, <1>8

\* The live log is renamed; a log() that has it open writes to it all the same.
LEMMA RenameLiveKeeps == LogInv /\ RenameLive => LogInv'
  <1> SUFFICES ASSUME LogInv, RenameLive PROVE LogInv'
    OBVIOUS
  <1> USE DEF LogInv
  <1>1. /\ rotation.pc = "shift" /\ rotation.k = 0
        /\ dir' = Move(Live, Plain(1))
        /\ rotation' = [rotation EXCEPT !.pc = "delete", !.k = 0]
        /\ UNCHANGED <<events, disk, writer, deleted>>
    BY DEF RenameLive, Rotates
  <1>2. /\ Gz(1) \in Name /\ Live \in Name /\ Plain(1) \in Name /\ Live # Plain(1)
        /\ Gz(1) # Live /\ Gz(1) # Plain(1) /\ Keep \in Nat
    BY Names
  <1>3. dir[Plain(1)] = NoFile /\ dir[Gz(1)] = NoFile
    BY <1>1 DEF RotationInv
  <1>4. /\ FilesInv'
        /\ dir'[Live] = NoFile /\ dir'[Plain(1)] = dir[Live] /\ dir'[Gz(1)] = dir[Gz(1)]
        /\ \A name \in Name : \E m \in Name : EventsIn(m)' = EventsIn(name)
    BY <1>1, <1>2, <1>3, MoveFiles
  <1>5. rotation'.pc = "delete" /\ rotation' \in [pc : {"delete"}, k : 0 .. Keep, count : Nat]
    BY <1>1, <1>2 DEF RotationInv
  <1>6. Writing' = Writing /\ (Writing => writer.file = dir[Live])
    BY <1>1 DEF WriterInv, Writing
  <1>7. WriterInv'
    BY <1>1, <1>4, <1>5, <1>6 DEF WriterInv
  <1>8. TornInv'
    <2>1. Torn(writer.file)' = Torn(writer.file) /\ BeforeFailed' = BeforeFailed /\ Half(1)' = Half(1)
      BY <1>1 DEF Torn, BeforeFailed, Half
    <2> QED
      BY <1>1, <1>4, <2>1 DEF TornInv
  <1>9. RotationInv'
    BY <1>3, <1>4, <1>5 DEF RotationInv
  <1>10. KeptInv'
    <2>1. Lasting = Name /\ Lasting' = Name
      BY <1>1, <1>5 DEF Lasting
    <2> QED
      BY <1>1, <1>4, <2>1, KeptFrame
  <1> QED
    BY <1>4, <1>7, <1>8, <1>9, <1>10

\* The oldest log goes, and only then are its events lost.
LEMMA DeleteOldestKeeps == LogInv /\ DeleteOldest => LogInv'
  <1> SUFFICES ASSUME LogInv, DeleteOldest PROVE LogInv'
    OBVIOUS
  <1> USE DEF LogInv
  <1>1. /\ rotation.pc = "delete"
        /\ deleted' = deleted \cup EventsIn(Gz(Keep + 1))
        /\ dir' = [dir EXCEPT ![Gz(Keep + 1)] = NoFile]
        /\ rotation' = [rotation EXCEPT !.pc = "idle", !.k = 0]
        /\ UNCHANGED <<events, disk, writer>>
    BY DEF DeleteOldest, Rotates
  <1>2. /\ Gz(1) \in Name /\ Gz(Keep + 1) \in Name /\ Live \in Name /\ Plain(1) \in Name
        /\ Gz(Keep + 1) # Live /\ Gz(Keep + 1) # Plain(1) /\ Keep \in Nat
        /\ Gz(Keep + 1) # Gz(1)
    <2>1. Keep + 1 \in 0 .. Keep + 1 /\ 1 \in 0 .. Keep + 1 /\ Keep + 1 # 1
      BY Names
    <2> QED
      BY <2>1, Names
  <1>3. /\ FilesInv'
        /\ dir'[Gz(Keep + 1)] = NoFile
        /\ \A name \in Name : name # Gz(Keep + 1) =>
              dir'[name] = dir[name] /\ EventsIn(name)' = EventsIn(name)
    BY <1>1, <1>2, RemoveName
  <1>4. rotation'.pc = "idle" /\ rotation' \in [pc : {"idle"}, k : 0 .. Keep, count : Nat]
    <2>1. 0 \in 0 .. Keep
      BY <1>2
    <2> QED
      BY <1>1, <2>1, RotationTo
  <1>5. WriterInv' /\ TornInv'
    <2>1. dir'[Live] = dir[Live] /\ dir'[Plain(1)] = dir[Plain(1)] /\ Len(disk) \in Nat
      BY <1>2, <1>3, LenProperties DEF FilesInv
    <2> QED
      BY <1>1, <1>4, <2>1, WriterFrame
  <1>6. RotationInv'
    <2>1. dir'[Gz(1)] = NoFile
      BY <1>1, <1>2, <1>3 DEF RotationInv
    <2> QED
      BY <1>3, <1>4, <2>1 DEF RotationInv
  <1>7. KeptInv'
    <2>1. Lasting = Name /\ Lasting' = Name
      BY <1>1, <1>4 DEF Lasting
    <2> QED
      BY <1>1, <1>3, <2>1, KeptFrame
  <1> QED
    BY <1>3, <1>5, <1>6, <1>7

-----------------------------------------------------------------------------

\* An empty directory satisfies the invariant.
LEMMA LogInit == Init => LogInv
  <1> SUFFICES ASSUME Init PROVE LogInv
    OBVIOUS
  <1>1. /\ events = << >> /\ disk = << >> /\ Len(events) = 0 /\ Len(disk) = 0
        /\ events \in Seq(Event) /\ disk \in Seq(Range(disk))
        /\ DOMAIN events = {} /\ DOMAIN disk = {}
    BY EmptySeq DEF Init
  <1>2. dir = [name \in Name |-> NoFile] /\ \A name \in Name : dir[name] = NoFile
    BY DEF Init
  <1>3. dir \in [Name -> 0 .. Len(disk)]
    BY <1>1, <1>2 DEF NoFile
  <1>4. FilesInv
    BY <1>1, <1>2, <1>3 DEF FilesInv
  <1>5. WriterInv /\ ~Writing /\ writer.pc = "down"
    BY <1>1 DEF Init, WriterInv, Writing, NoFile
  <1>6. RotationInv
    BY <1>2, Names DEF Init, RotationInv
  <1>7. TornInv
    BY <1>2, <1>5, Names DEF TornInv
  <1>8. KeptInv
    BY <1>1 DEF KeptInv
  <1> QED
    BY <1>4, <1>5, <1>6, <1>7, <1>8 DEF LogInv

\* LogInv is inductive.
THEOREM LogInductive == Spec => []LogInv
  <1>1. ASSUME LogInv, UNCHANGED <<events, dir, disk, writer, rotation, deleted>>
        PROVE  LogInv'
    <2>1. FilesInv'
      BY <1>1 DEF LogInv, FilesInv
    <2>2. WriterInv'
      BY <1>1 DEF LogInv, WriterInv, Writing
    <2>3. RotationInv'
      BY <1>1 DEF LogInv, RotationInv
    <2>4. TornInv'
      BY <1>1 DEF LogInv, TornInv, Writing, Torn, LastFailed, BeforeFailed, Half
    <2>5. KeptInv'
      BY <1>1 DEF LogInv, KeptInv, Lasting, EventsIn
    <2> QED
      BY <2>1, <2>2, <2>3, <2>4, <2>5 DEF LogInv
  <1>2. ASSUME LogInv, \E s \in Sessions, kind \in {"connect", "command"} : OpenLog(kind, s)
        PROVE  LogInv'
    BY <1>2, OpenLogKeeps
  <1>3. ASSUME LogInv, OpenLog("heartbeat", "none") PROVE LogInv'
    BY <1>3, OpenLogKeeps
  <1>4. ASSUME LogInv, NEW size \in 0 .. 2 * Len(events), Compress(size) PROVE LogInv'
    <2>1. size \in Nat
      BY <1>4, LenProperties DEF LogInv, FilesInv
    <2> QED
      BY <1>4, <2>1, CompressKeeps
  <1>5. ASSUME ListLogs \/ StatLog \/ ParseLog \/ ReadLive \/ \E server \in BOOLEAN : EndReport(server)
        PROVE  UNCHANGED <<events, dir, disk, writer, rotation, deleted>>
    BY <1>5 DEF ListLogs, StatLog, ParseLog, ReadLive, EndReport
  <1>6. LogInv /\ Next => LogInv'
    BY <1>1, <1>2, <1>3, <1>4, <1>5, StartKeeps, WriteLineKeeps, WriteHeadKeeps, WriteTailKeeps,
       FaultKeeps, StartRotationKeeps, CompressedKeeps, RemovePlainKeeps, ShiftKeeps,
       RenameLiveKeeps, DeleteOldestKeeps DEF Next
  <1>7. LogInv /\ UNCHANGED vars => LogInv'
    BY <1>1 DEF vars
  <1> QED
    BY <1>6, <1>7, LogInit, PTL DEF Spec

\* Rotation needs no signal to the honeypot: an event whose log() returned stays
\* readable until its log is deleted, unless the event before it failed
\* (events.py, log; deploy/logrotate-riscv-honeypot.conf).
THEOREM RotationLosesNothing == Spec => []LoggedIsReadable
  <1>1. LogInv => LoggedIsReadable
    BY DEF LogInv, KeptInv, LoggedIsReadable, Readable, Lasting
  <1> QED
    BY <1>1, LogInductive, PTL

=============================================================================
