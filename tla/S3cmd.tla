------------------------------- MODULE S3cmd -------------------------------
(* s3cmd (app/s3cmd): buckets of files over the key value store.  Every      *)
(* command is a process of its own.  It reads the listing of all buckets,    *)
(* one value of the store, and works out what to do; it stores and removes   *)
(* the files, saves the new listing, and writes its pages back as it ends.   *)
EXTENDS KVS, SequencesExt

CONSTANTS
    Buckets, Names,
    Paths,          \* the local files, each with its last path element
    LastElement,
    Contents,       \* the contents of files, told apart by their sizes
    LocalFiles,     \* the local files there may be: their path and content, or Missing
    Pages,          \* the pages a content needs
    BUCKETS_FILE,   \* the key of the listing
    Path,           \* the key of a file: its bucket and its name
    Missing,        \* the content of a local file that cannot be opened
    MaxPut,         \* bound: the files of a put
    Killed,         \* the commands that may be killed before they save
    Faults          \* more that may happen: "killed as it saves", "together", "to itself", "to file"

ASSUME S3cmdAssumption ==
    /\ Path \in [Buckets \X Names -> Keys] /\ IsInjective(Path)
    /\ BUCKETS_FILE \in Keys \ Range(Path)
    /\ LastElement \in [Paths -> Names]
    /\ Pages \in [Contents -> Nat \ {0}]
    /\ LocalFiles \subseteq [path : Paths, size : Contents \cup {Missing}] /\ Missing \notin Contents

VARIABLES
    running,    \* process -> its command, or Idle
    todo,       \* process -> the calls of the store it has before it
    got         \* what the last command, a get, wrote to its local file

vars == <<kvsVars, running, todo, got>>

-----------------------------------------------------------------------------
(* Listings: bucket -> its file_list.                                       *)

File == [file_name : Names, hash : Keys, size : Contents]

NoBuckets == [b \in {} |-> <<>>]

IsListing(v) == v \notin Contents \cup {Zero, Gone}

FileNames(files) == {files[i].file_name : i \in DOMAIN files}

Find(files, n) == files[Min({i \in DOMAIN files : files[i].file_name = n})]

Without(files, n) == SelectSeq(files, LAMBDA f : f.file_name # n)

Has(j, b, n) == b \in DOMAIN j /\ n \in FileNames(j[b])

\* The entry of a file in bucket b: the hash is its path.
NewFile(b, n, size) == [file_name |-> n, hash |-> Path[b, n], size |-> size]

-----------------------------------------------------------------------------
(* The commands: what each does, from the listing j it read.                *)

load(cmd) == [do |-> "load", cmd |-> cmd]
add(k, v) == [do |-> "add", key |-> k, data |-> v]
remove(k) == [do |-> "remove", key |-> k]
fetch(k) == [do |-> "fetch", key |-> k]
clone(from, to) == [do |-> "clone", key |-> from, to |-> to]

save_acc_data(j) == <<add(BUCKETS_FILE, j)>>

mb(j, b) == IF b \in DOMAIN j THEN <<>> ELSE save_acc_data(j @@ (b :> <<>>))

\* Saves the listing, whether the bucket was there or not.
rb(j, b) ==
    LET files == IF b \in DOMAIN j THEN j[b] ELSE <<>>
    IN  [i \in DOMAIN files |-> remove(files[i].hash)]
            \o save_acc_data(Restrict(j, DOMAIN j \ {b}))

\* A local file is compared by its whole path and stored by its last element.  One
\* that cannot be opened ends the command, which then saves nothing.
PutOne_Listed(b, done, f) ==    \* mutant: does not look whether it is there
    IF f.size = Missing THEN [done EXCEPT !.ok = FALSE]
    ELSE LET new == NewFile(b, LastElement[f.path], f.size)
         IN  [done EXCEPT !.files = Append(@, new), !.calls = Append(@, add(new.hash, f.size))]

PutOne(b, done, f) ==
    IF ~done.ok \/ f.path \in FileNames(done.files) THEN done
    ELSE IF f.size = Missing THEN [done EXCEPT !.ok = FALSE]
    ELSE LET new == NewFile(b, LastElement[f.path], f.size)
         IN  [done EXCEPT !.files = Append(@, new), !.calls = Append(@, add(new.hash, f.size))]

put(j, b, paths) ==
    IF b \notin DOMAIN j THEN <<>>
    ELSE LET done == FoldLeft(LAMBDA d, f : PutOne(b, d, f),
                              [ok |-> TRUE, files |-> j[b], calls |-> <<>>], paths)
         IN  done.calls \o IF done.ok THEN save_acc_data([j EXCEPT ![b] = done.files]) ELSE <<>>

get_file(j, b, n) == IF Has(j, b, n) THEN <<fetch(Find(j[b], n).hash)>> ELSE <<>>

del_Unlisted(j, b, n) ==    \* mutant: returns without saving
    IF b \notin DOMAIN j THEN <<>>
    ELSE LET found == SelectSeq(j[b], LAMBDA f : f.file_name = n)
         IN  [i \in DOMAIN found |-> remove(found[i].hash)]

\* Saves the listing, whether the file was there or not.
del(j, b, n) ==
    IF b \notin DOMAIN j THEN <<>>
    ELSE LET found == SelectSeq(j[b], LAMBDA f : f.file_name = n)
         IN  [i \in DOMAIN found |-> remove(found[i].hash)]
                 \o save_acc_data([j EXCEPT ![b] = Without(@, n)])

\* The file f to bucket b, whose files are those of j.
CloneTo(j, b, f) ==
    IF f.file_name \in FileNames(j[b]) THEN <<>>
    ELSE LET new == NewFile(b, f.file_name, f.size)
         IN  <<clone(f.hash, new.hash)>> \o save_acc_data([j EXCEPT ![b] = Append(@, new)])

\* To a bucket, or to a file of a bucket, which is left to do.
cp(j, b, n, to, toFile) ==
    IF ~Has(j, b, n) \/ to \notin DOMAIN j THEN <<>>
    ELSE IF toFile THEN save_acc_data(j)
    ELSE CloneTo(j, to, Find(j[b], n))

mv_Kept(j, b, n, to, toFile) ==     \* mutant: leaves the entry where it was
    IF ~Has(j, b, n) \/ to \notin DOMAIN j THEN <<>>
    ELSE IF toFile THEN save_acc_data(j) ELSE CloneTo(j, to, Find(j[b], n))

\* The entry goes, the data under its hash stays.
mv(j, b, n, to, toFile) ==
    IF ~Has(j, b, n) \/ to \notin DOMAIN j THEN <<>>
    ELSE LET rest == [j EXCEPT ![b] = Without(@, n)]
         IN  IF toFile THEN save_acc_data(rest) ELSE CloneTo(rest, to, Find(j[b], n))

Plan(cmd, j) ==
    CASE cmd.name = "mb" -> mb(j, cmd.bucket)
      [] cmd.name = "rb" -> rb(j, cmd.bucket)
      [] cmd.name = "put" -> put(j, cmd.bucket, cmd.paths)
      [] cmd.name = "get" -> get_file(j, cmd.bucket, cmd.file)
      [] cmd.name = "del" -> del(j, cmd.bucket, cmd.file)
      [] cmd.name = "cp" -> cp(j, cmd.bucket, cmd.file, cmd.to, cmd.toFile)
      [] cmd.name = "mv" -> mv(j, cmd.bucket, cmd.file, cmd.to, cmd.toFile)
      [] cmd.name = "ls" -> <<>>

\* The command lines main() takes.
Commands ==
    [name : {"ls"}]
        \cup [name : {"mb", "rb"}, bucket : Buckets]
        \cup [name : {"put"}, bucket : Buckets, paths : BoundedSeq(LocalFiles, MaxPut) \ {<<>>}]
        \cup [name : {"get", "del"}, bucket : Buckets, file : Names]
        \cup {c \in [name : {"cp", "mv"}, bucket : Buckets, file : Names, to : Buckets,
                       toFile : BOOLEAN] :
                  /\ c.name = "mv" /\ c.toFile => "to file" \in Faults
                  /\ c.name = "mv" /\ ~c.toFile /\ c.to = c.bucket => "to itself" \in Faults}

-----------------------------------------------------------------------------
(* A process.                                                               *)

Idle == "idle"

Init ==
    /\ KVSInit
    /\ running = [p \in Processes |-> Idle]
    /\ todo = [p \in Processes |-> <<>>]
    /\ got = NoBlock

main(p, cmd, found) ==
    /\ running[p] = Idle
    /\ "together" \in Faults \/ \A q \in Processes : running[q] = Idle
    /\ Exec(p, found)
    /\ running' = [running EXCEPT ![p] = cmd.name]
    /\ todo' = [todo EXCEPT ![p] = <<load(cmd)>>]
    /\ got' = NoBlock

\* The next call p has before it.
Calls(p, do) == todo[p] # <<>> /\ Head(todo[p]).do = do

Then(p, calls) == todo' = [todo EXCEPT ![p] = calls] /\ UNCHANGED <<running, got>>

\* An exception or a signal: nothing is written back.
Dies(p) ==
    /\ running' = [running EXCEPT ![p] = Idle]
    /\ todo' = [todo EXCEPT ![p] = <<>>]
    /\ dirty' = [dirty EXCEPT ![p] = <<>>]
    /\ UNCHANGED <<slaves, rings, known, got>>

\* The first command makes the listing.  What does not parse as one is thrown.
load_acc_data(p) ==
    /\ Calls(p, "load")
    /\ IF ~Found(p, BUCKETS_FILE)
       THEN rum_alloc(p, BUCKETS_FILE, NoBuckets, 1) /\ Then(p, todo[p])
       ELSE LET v == Value(p, BUCKETS_FILE)
            IN  IF IsListing(v)
                THEN get(p, BUCKETS_FILE) /\ Then(p, Plan(Head(todo[p]).cmd, v))
                ELSE Dies(p)

PagesOf(v) == IF v \in Contents THEN Pages[v] ELSE 1

add_value(p) ==
    /\ Calls(p, "add")
    /\ LET c == Head(todo[p])
       IN  IF known[p][c.key] # NoBlock
           THEN rum_free(p, c.key) /\ Then(p, todo[p])
           ELSE rum_alloc(p, c.key, c.data, PagesOf(c.data)) /\ Then(p, Tail(todo[p]))

remove_value(p) ==
    /\ Calls(p, "remove")
    /\ rum_free(p, Head(todo[p]).key)
    /\ Then(p, Tail(todo[p]))

\* The value is a pointer into the pages of the key, which add() frees if it is to
\* be the same one.
clone_value(p) ==
    /\ Calls(p, "clone")
    /\ LET c == Head(todo[p])
           v == IF c.to = c.key THEN Zero ELSE Value(p, c.key)
       IN  IF Found(p, c.key)
           THEN get(p, c.key) /\ Then(p, <<add(c.to, v)>> \o Tail(todo[p]))
           ELSE UNCHANGED kvsVars /\ Then(p, <<>>)

\* get() of a key that is not there gives NULL, which is not looked at.
fetch_value(p) ==
    /\ Calls(p, "fetch")
    /\ LET k == Head(todo[p]).key
       IN  IF Found(p, k)
           THEN /\ get(p, k)
                /\ got' = Value(p, k)
                /\ todo' = [todo EXCEPT ![p] = <<>>]
                /\ UNCHANGED running
           ELSE Dies(p)

rum_end(p) ==
    /\ running[p] # Idle /\ todo[p] = <<>>
    /\ IF dirty[p] # <<>> THEN flush(p) /\ UNCHANGED running
       ELSE running' = [running EXCEPT ![p] = Idle] /\ UNCHANGED kvsVars
    /\ UNCHANGED <<todo, got>>

\* From when it frees the old listing until it has written the new one back.
Saving(p) ==
    \/ Calls(p, "add") /\ Head(todo[p]).key = BUCKETS_FILE /\ known[p][BUCKETS_FILE] = NoBlock
    \/ \E i \in DOMAIN dirty[p] : dirty[p][i][1] = known[p][BUCKETS_FILE]

Kill(p) ==
    /\ running[p] \in Killed
    /\ "killed as it saves" \in Faults \/ ~Saving(p)
    /\ Dies(p)

Next ==
    \E p \in Processes :
        \/ \E cmd \in Commands, found \in MachineFiles : main(p, cmd, found)
        \/ load_acc_data(p) \/ add_value(p) \/ remove_value(p)
        \/ clone_value(p) \/ fetch_value(p)
        \/ rum_end(p) \/ Kill(p)

Spec == Init /\ [][Next]_vars

-----------------------------------------------------------------------------
(* Properties.                                                              *)

TypeOK ==
    /\ hash_map \in [Machines -> [Keys -> AllBlocks \cup {NoBlock}]]
    /\ \A b \in AllBlocks : heap[b].data = Gone <=> \A m \in Machines, k \in Keys : hash_map[m][k] # b
    /\ known \in [Processes -> [Keys -> AllBlocks \cup {NoBlock}]]
    /\ running \in [Processes -> {Idle} \cup {c.name : c \in Commands}]
    /\ got \in Contents \cup {NoBlock}

Quiet == \A p \in Processes : running[p] = Idle

\* What a process with this ring finds under a key, when nobody holds it back.
Stored(ring, k) ==
    LET b == hash_map[get_next_node_by_key(ring, k)][k]
    IN  IF b = NoBlock THEN Gone ELSE heap[b].data

Listed(ring) ==
    LET v == Stored(ring, BUCKETS_FILE) IN IF IsListing(v) THEN v ELSE NoBuckets

NextRings == {RingOf(f, Place) : f \in MachineFiles}

\* When no command runs, every file of the listing is in the store under its hash,
\* with the content whose size the listing gives: del and rb, which free first and
\* save after, the data that mv and a killed put leave behind, and the order in which
\* the pages of a process are written back do not break it.
ListingHolds ==
    Quiet => \A ring \in NextRings : LET j == Listed(ring) IN
        \A b \in DOMAIN j : \A i \in DOMAIN j[b] :
            j[b][i] \in File /\ Stored(ring, j[b][i].hash) = j[b][i].size

\* No bucket lists a file twice, and no two entries are the same data, which
\* removing the one would take from the other.
ListedOnce ==
    \A ring \in NextRings : LET j == Listed(ring) IN
        \A b1, b2 \in DOMAIN j : \A i1 \in DOMAIN j[b1], i2 \in DOMAIN j[b2] :
            <<b1, i1>> # <<b2, i2>> => /\ j[b1][i1].hash # j[b2][i2].hash
                                       /\ b1 = b2 => j[b1][i1].file_name # j[b2][i2].file_name

\* All data in the store is listed.  mv does not see to it, nor does a put that
\* stops at a file it cannot open: no run checks this.
NoOrphans ==
    Quiet => \A ring \in NextRings : LET j == Listed(ring) IN
        \A k \in Keys \ {BUCKETS_FILE} :
            Stored(ring, k) # Gone => 
                \E b \in DOMAIN j : \E i \in DOMAIN j[b] : j[b][i].hash = k

\* The listing as commands see it: that of the process that saves one, else the
\* stored one.
Savers == {p \in Processes : Saving(p)}

Current ==
    IF Savers = {} THEN Listed(rings[CHOOSE p \in Processes : TRUE])
    ELSE LET p == CHOOSE q \in Savers : TRUE
         IN  IF Calls(p, "add") THEN Head(todo[p]).data ELSE Read(p, known[p][BUCKETS_FILE])

ObjectsOf(j) ==
    [b \in DOMAIN j |-> [n \in FileNames(j[b]) |-> Find(j[b], n).size]]

Store == INSTANCE ObjectStore WITH
    command <- IF Savers = {} THEN Idle ELSE running[CHOOSE p \in Savers : TRUE],
    objects <- CHOOSE o \in {ObjectsOf(j) : j \in {Current}} : TRUE,    \* the only one
    Nothing <- NoBlock

\* The commands are those of an object store, each one step for the next command,
\* whatever the processes do on the way: the listing changes as a whole, and a get
\* brings the content that was put there, or copied or moved there, last.  A file is
\* in one place after a mv, and stays where it is in a cp.
IsObjectStore == Store!Spec

=============================================================================
