-------------------------- MODULE McpServerProofs --------------------------
(***************************************************************************)
(* Proofs about the programs on the controller's side and the folder of    *)
(* copies, for every configuration of the broker and of the programs,      *)
(* every content of the folder, and any number of ticks and copies.        *)
(***************************************************************************)
EXTENDS McpServer, FiniteSetTheorems, TLAPS

-----------------------------------------------------------------------------
(* Start-up and the push.                                                  *)

(* A program that is connecting or further has a valid configuration; its  *)
(* settings are its own until it has fetched, and then those of one        *)
(* profile over them.                                                      *)
StartInv ==
  /\ brokerUp => load_broker_settings(brokerConfig)
  /\ brokerConfig \in BrokerConfigs
  /\ phase \in {"connect", "fetch", "health", "running", "serving"} =>
       load_settings(config) /\ DOMAIN settings = Fields
  /\ phase \in {"connect", "fetch"} => settings = Settings(config)
  /\ phase = "fetch" => timeout = settings.timeout
  /\ phase = "serving" => program = "mcp"
  /\ phase \in {"health", "running"} => program = "automation"
  /\ program \in {"mcp", "automation"}
  /\ AppliesOneProfile /\ KeepsItsAddress
  /\ phase \in Phases

(* A picture is only taken while serving.                                  *)
ShotInv ==
  /\ shot = "broken" => phase = "serving"
  /\ ShownWhateverTheCopy

(* What a push can hold.                                                   *)
LEMMA PushedKeys ==
  ASSUME StartInv, NEW pushed, Pushes(pushed)
  PROVE  pushed \in Pushable /\ DOMAIN pushed \subseteq _VALID_MCP_PROFILE_KEYS
<1>1. CASE pushed = << >>
  BY <1>1 DEF Pushable
<1>2. CASE Reaches /\ pushed = brokerConfig.mcp_profile
  <2>1. brokerConfig \in BrokerConfigs /\ load_broker_settings(brokerConfig)
    BY <1>2 DEF Reaches, StartInv
  <2>2. pushed \in Pushable
    BY <1>2, <2>1 DEF Pushable
  <2>3. DOMAIN pushed \subseteq _VALID_MCP_PROFILE_KEYS
    BY <1>2, <2>1 DEF load_broker_settings, _validate_mcp_profile
  <2> QED BY <2>2, <2>3
<1> QED BY <1>1, <1>2 DEF Pushes

LEMMA OwnFields ==
  ASSUME NEW c
  PROVE  DOMAIN Settings(c) = Fields
<1> QED BY DEF Settings, Fields

(* They hold at first.                                                     *)
LEMMA StartInit == Init => StartInv /\ ShotInv
<1> QED BY DEF Init, StartInv, ShotInv, ShownWhateverTheCopy, AppliesOneProfile,
           KeepsItsAddress, Phases, Over

(* Every step keeps them.                                                  *)
LEMMA StartStep ==
  StartInv /\ ShotInv /\ [Next]_vars => StartInv' /\ ShotInv'
<1> SUFFICES ASSUME StartInv, ShotInv, [Next]_vars PROVE StartInv' /\ ShotInv'
  OBVIOUS
<1> USE DEF Phases, Over
<1>1. CASE UNCHANGED <<brokerVars, programVars>>
  BY <1>1 DEF brokerVars, programVars, StartInv, ShotInv, ShownWhateverTheCopy,
     AppliesOneProfile, KeepsItsAddress, Pushable
<1>2. CASE BrokerStarts \/ BrokerStops \/ BrokerIsConfigured
  <2>1. /\ UNCHANGED programVars /\ brokerConfig' \in BrokerConfigs
        /\ brokerUp' => load_broker_settings(brokerConfig')
    BY <1>2 DEF BrokerStarts, BrokerStops, BrokerIsConfigured, StartInv
  <2> QED BY <2>1 DEF programVars, StartInv, ShotInv, ShownWhateverTheCopy,
          AppliesOneProfile, KeepsItsAddress, Pushable
<1>3. ASSUME NEW p \in {"mcp", "automation"}, NEW c \in Configs, Starts(p, c)
      PROVE  StartInv' /\ ShotInv'
  <2>1. /\ UNCHANGED <<brokerUp, brokerConfig>> /\ config' = c /\ shot' = "none"
        /\ program' = p
        /\ \/ load_settings(c) /\ phase' = "connect" /\ settings' = Settings(c)
           \/ phase' = "refused"
    BY <1>3 DEF Starts, brokerVars
  <2> QED BY <2>1, OwnFields DEF StartInv, ShotInv, ShownWhateverTheCopy,
          AppliesOneProfile, KeepsItsAddress
<1>4. CASE Connects
  <2>1. /\ UNCHANGED <<brokerUp, brokerConfig, program, config, settings, shot>>
        /\ phase = "connect" /\ timeout' = settings.timeout
        /\ \/ phase' \in {"fetch", "mismatch"}
           \/ phase' = "crashed" /\ config.broker_scheme # "http"
    BY <1>4 DEF Connects, brokerVars
  <2>2. config.broker_scheme \in {"http", "https"}
    BY <2>1 DEF StartInv, load_settings, _validate_broker_scheme_and_fingerprint
  <2> QED BY <2>1, <2>2 DEF StartInv, ShotInv, ShownWhateverTheCopy,
          AppliesOneProfile, KeepsItsAddress
<1>5. CASE Fetches
  <2>1. PICK pushed : /\ Pushes(pushed)
                      /\ IF program = "mcp" THEN FetchesForMcp(pushed)
                         ELSE FetchesForAutomation(pushed)
    BY <1>5 DEF Fetches
  <2>2. phase = "fetch" /\ UNCHANGED <<brokerUp, brokerConfig, program, config, shot>>
    BY <1>5 DEF Fetches, brokerVars
  <2>3. /\ DOMAIN pushed \subseteq Fields /\ "mcp_host" \notin DOMAIN pushed
        /\ pushed \in Pushable
    BY <2>1, PushedKeys DEF Fields, _VALID_MCP_PROFILE_KEYS
  <2>4. /\ settings = Settings(config) /\ DOMAIN settings = Fields
        /\ timeout = Settings(config).timeout
    BY <2>2 DEF StartInv
  <2>5. {"timeout", "mcp_host"} \subseteq Fields
    BY DEF Fields
  <2>6. Pushable' = Pushable
    BY DEF Pushable
  <2>7. CASE program = "mcp"
    <3>1. /\ settings' = [k \in Fields |-> IF k \in DOMAIN pushed THEN pushed[k]
                                           ELSE Settings(config)[k]]
          /\ phase' = "serving"
          /\ timeout' = IF "timeout" \in DOMAIN pushed THEN settings'.timeout ELSE timeout
      BY <2>1, <2>3, <2>4, <2>7 DEF FetchesForMcp, Merged
    <3>2. \A k \in Fields : settings'[k] = IF k \in DOMAIN pushed THEN pushed[k]
                                          ELSE Settings(config)[k]
      BY <3>1
    <3>3. timeout' = IF "timeout" \in DOMAIN pushed THEN pushed["timeout"]
                     ELSE Settings(config).timeout
      BY <2>4, <2>5, <3>1, <3>2
    <3>4. settings'.mcp_host = Settings(config).mcp_host /\ DOMAIN settings' = Fields
      BY <2>3, <2>5, <3>1, <3>2
    <3>5. AppliesOneProfile'
      BY <2>2, <2>3, <2>6, <2>7, <3>2, <3>3 DEF AppliesOneProfile
    <3> QED BY <2>2, <2>7, <3>1, <3>4, <3>5
            DEF StartInv, ShotInv, ShownWhateverTheCopy, KeepsItsAddress
  <2>8. CASE program # "mcp"
    <3>1. /\ settings' = settings /\ phase' = "health"
          /\ timeout' = IF "timeout" \in DOMAIN pushed THEN pushed["timeout"] ELSE timeout
      BY <2>1, <2>8 DEF FetchesForAutomation
    <3>2. AppliesOneProfile'
      BY <2>2, <2>3, <2>4, <2>6, <2>8, <3>1 DEF AppliesOneProfile
    <3> QED BY <2>2, <2>8, <3>1, <3>2
            DEF StartInv, ShotInv, ShownWhateverTheCopy, KeepsItsAddress
  <2> QED BY <2>7, <2>8
<1>6. CASE ChecksHealth
  <2>1. /\ UNCHANGED <<brokerUp, brokerConfig, program, config, settings, timeout, shot>>
        /\ phase = "health" /\ phase' \in {"crashed", "running", "unreachable"}
        /\ phase' = "crashed" => timeout = Bad
    BY <1>6 DEF ChecksHealth, brokerVars
  <2> QED BY <2>1 DEF StartInv, ShotInv, ShownWhateverTheCopy, AppliesOneProfile, KeepsItsAddress, Pushable
<1>7. CASE Stops
  <2>1. UNCHANGED <<brokerUp, brokerConfig, program>> /\ phase' = "off" /\ shot' = "none"
    BY <1>7 DEF Stops, brokerVars
  <2> QED BY <2>1 DEF StartInv, ShotInv, ShownWhateverTheCopy, AppliesOneProfile, KeepsItsAddress
<1>8. CASE take_screenshot
  <2>1. /\ phase = "serving"
        /\ UNCHANGED <<brokerUp, brokerConfig, program, phase, config, settings, timeout>>
        /\ shot' = "broken" =>
             settings.screenshot_dir = Bad \/ settings.max_saved_screenshots = Bad
    BY <1>8 DEF take_screenshot, SavesCopy, brokerVars
  <2>2. config.max_saved_screenshots # Bad
    BY <2>1 DEF StartInv, load_settings
  <2> QED BY <2>1, <2>2 DEF StartInv, ShotInv, ShownWhateverTheCopy, AppliesOneProfile, KeepsItsAddress, Pushable
<1>9. CASE Clock
  BY <1>1, <1>9 DEF Clock
<1> QED BY <1>1, <1>2, <1>3, <1>4, <1>5, <1>6, <1>7, <1>8, <1>9 DEF Next, vars

LEMMA StartInvariant == Spec => [](StartInv /\ ShotInv)
<1> QED BY StartInit, StartStep, PTL DEF Spec

(* A program works with its own configuration and one profile that the     *)
(* broker accepts, or none, over it, whatever brokers come and go while it *)
(* starts; its client has the timeout of the same merge, its address is    *)
(* its own, and a profile ends no program but a runner that it gives a     *)
(* text for a timeout (mcp/__init__.py, dataclasses.replace, set_timeout;  *)
(* automation/__init__.py; broker/config.py, _validate_mcp_profile).       *)
THEOREM ConfiguredAsAWhole == Spec => WorksAsConfigured
<1>1. StartInv => AppliesOneProfile /\ KeepsItsAddress
  BY DEF StartInv
<1>2. StartInv /\ [Next]_vars => [EndsForAReason]_vars
  <2> SUFFICES ASSUME StartInv, Next, Crashes PROVE EndsForAReason
    BY DEF EndsForAReason
  <2>1. Connects \/ Fetches \/ ChecksHealth
    BY DEF Next, Crashes, Starts, BrokerStarts, BrokerStops, BrokerIsConfigured, Stops,
       take_screenshot, Clock, programVars
  <2>2. CASE Connects
    <3>1. phase = "connect" /\ config.broker_scheme # "http"
      BY <2>2 DEF Connects, Crashes
    <3>2. config.broker_scheme \in {"http", "https"}
      BY <3>1 DEF StartInv, load_settings, _validate_broker_scheme_and_fingerprint
    <3> QED BY <3>1, <3>2 DEF EndsForAReason
  <2>3. CASE Fetches
    <3>1. PICK pushed : /\ Pushes(pushed)
                        /\ IF program = "mcp" THEN FetchesForMcp(pushed)
                           ELSE FetchesForAutomation(pushed)
      BY <2>3 DEF Fetches
    <3>2. DOMAIN pushed \subseteq DOMAIN settings
      BY <2>3, <3>1, PushedKeys DEF Fetches, StartInv, Fields, _VALID_MCP_PROFILE_KEYS
    <3>3. phase' # "crashed"
      BY <3>1, <3>2 DEF FetchesForMcp, FetchesForAutomation
    <3> QED BY <3>3 DEF Crashes
  <2>4. CASE ChecksHealth
    BY <2>4 DEF ChecksHealth, Crashes, EndsForAReason
  <2> QED BY <2>1, <2>2, <2>3, <2>4
<1> QED BY <1>1, <1>2, StartInvariant, PTL DEF Spec, WorksAsConfigured

(* No OSError of the folder loses a picture, for every configuration: it   *)
(* takes a folder that is no text, or a pushed maximum that is no whole    *)
(* number (server.py, _save_screenshot).                                   *)
THEOREM PicturesShown == Spec => []ShownWhateverTheCopy
<1> QED BY StartInvariant, PTL DEF ShotInv

-----------------------------------------------------------------------------
(* The folder of copies.                                                   *)

(* While the clock is not set back, the copies' numbers follow the ticks   *)
(* of their names, and none is of a tick to come; other files have 0.      *)
StoreInv ==
  /\ StoreTypeOK
  /\ IsFiniteSet(DOMAIN files)
  /\ ~ wentBack =>
       /\ \A a \in DOMAIN files : files[a] > 0 => a.time <= clock
       /\ \A a, b \in DOMAIN files :
            files[b] > 0 /\ a.time < b.time => files[a] < files[b]
  /\ \A a \in DOMAIN files : files[a] <= copies

(* It holds at first: there are only other files.                          *)
LEMMA StoreInvInit == Init => StoreInv
<1> SUFFICES ASSUME StoreInit PROVE StoreInv
  BY DEF Init
<1>1. PICK S \in SUBSET Strangers : files = [a \in S |-> 0]
  BY DEF StoreInit
<1>2. IsFiniteSet(S)
  BY StrangersAssumption, FS_Subset
<1>3. Strangers \subseteq Name
  BY StrangersAssumption, BoundsAssumption DEF Name
<1>4. /\ DOMAIN files = S /\ S \subseteq Name /\ \A a \in S : files[a] = 0
      /\ files \in [DOMAIN files -> 0..MaxCopies]
  BY <1>1, <1>3, BoundsAssumption
<1>5. clock \in 1..MaxClock /\ copies \in 0..MaxCopies /\ copies = 0
  BY BoundsAssumption DEF StoreInit
<1>6. wentBack \in BOOLEAN
  BY Zenon DEF StoreInit
<1> QED BY <1>2, <1>4, <1>5, <1>6 DEF StoreInv, StoreTypeOK

(* Older names are fewer: what is removed is not of a later tick than what *)
(* stays.                                                                  *)
LEMMA OldestAreEarlier ==
  ASSUME NEW D, D \subseteq Name, IsFiniteSet(D), NEW k \in Int,
         NEW a \in Oldest(D, k), NEW b \in D \ Oldest(D, k)
  PROVE  a.time <= b.time
<1> DEFINE Below(x) == {y \in D : Before(y, x)}
<1>1. /\ a \in D /\ a.time \in Int /\ b.time \in Int
      /\ Cardinality(Below(a)) < k /\ ~ (Cardinality(Below(b)) < k)
  BY BoundsAssumption DEF Oldest, Name
<1>2. IsFiniteSet(Below(a)) /\ IsFiniteSet(Below(b))
  BY FS_Subset
<1>3. Cardinality(Below(a)) \in Nat /\ Cardinality(Below(b)) \in Nat
  BY <1>2, FS_CardinalityType
<1>4. SUFFICES ASSUME b.time < a.time PROVE FALSE
  BY <1>1
<1>5. Below(b) \subseteq Below(a)
  <2> SUFFICES ASSUME NEW y \in D, Before(y, b) PROVE Before(y, a)
    OBVIOUS
  <2>1. y.time \in Int /\ y.time <= b.time
    BY <1>1, BoundsAssumption DEF Before, Name
  <2> QED BY <1>1, <1>4, <2>1 DEF Before
<1>6. Cardinality(Below(b)) <= Cardinality(Below(a))
  BY <1>2, <1>5, FS_Subset
<1> QED BY <1>1, <1>3, <1>6

(* Every name but one's own comes before or after: names sort as text.     *)
LEMMA NamesAreOrdered ==
  ASSUME NEW a \in Name, NEW b \in Name, a # b
  PROVE  /\ Before(a, b) \/ Before(b, a)
         /\ \A c \in Name : Before(c, a) /\ Before(a, b) => Before(c, b)
         /\ ~ Before(a, a)
<1>1. \A c \in Name : c.time \in Int /\ c.n \in Int
  BY BoundsAssumption DEF Name
<1>2. \A c \in Name : c.fmt = "png" \/ c.fmt = "jpeg"
  BY FormatsAssumption DEF Name
<1>3. a.time # b.time \/ a.n # b.n \/ a.fmt # b.fmt
  BY DEF Name
<1> QED BY <1>1, <1>2, <1>3 DEF Before

(* Of a folder's names, the oldest k are k: as many are before the i-th as *)
(* it has places before it (server.py, files[:excess]).                    *)
LEMMA OldestCount ==
  ASSUME NEW D, D \subseteq Name, IsFiniteSet(D), NEW k \in 0..Cardinality(D)
  PROVE  Cardinality(Oldest(D, k)) = k
<1> DEFINE size == Cardinality(D)
           Below(x) == {y \in D : Before(y, x)}
           place == [x \in D |-> Cardinality(Below(x))]
           first == [x \in Oldest(D, k) |-> place[x]]
<1>1. size \in Nat
  BY FS_CardinalityType
<1>2. ASSUME NEW x \in D PROVE place[x] \in 0..size - 1
  <2>1. IsFiniteSet(Below(x)) /\ Cardinality(Below(x)) \in Nat
    BY FS_Subset, FS_CardinalityType
  <2>2. x \notin Below(x)
    BY BoundsAssumption DEF Before, Name
  <2>3. Cardinality(Below(x)) <= size /\ Cardinality(Below(x)) # size
    BY <2>2, FS_Subset
  <2> QED BY <1>1, <2>1, <2>3
<1>3. ASSUME NEW x \in D, NEW y \in D, Before(x, y), x # y
      PROVE  place[x] < place[y]
  <2>1. IsFiniteSet(Below(x)) /\ IsFiniteSet(Below(y))
    BY FS_Subset
  <2>2. Below(x) \subseteq Below(y) /\ x \in Below(y) /\ x \notin Below(x)
    BY <1>3, NamesAreOrdered
  <2>3. Cardinality(Below(x)) <= Cardinality(Below(y)) /\ Below(x) # Below(y)
    BY <2>1, <2>2, FS_Subset
  <2>4. Cardinality(Below(x)) # Cardinality(Below(y))
    BY <2>1, <2>2, <2>3, FS_Subset
  <2>5. Cardinality(Below(x)) \in Nat /\ Cardinality(Below(y)) \in Nat
    BY <2>1, FS_CardinalityType
  <2> QED BY <2>3, <2>4, <2>5
<1> HIDE DEF place
<1>4. \A x, y \in D : x # y => place[x] # place[y]
  <2> SUFFICES ASSUME NEW x \in D, NEW y \in D, x # y PROVE place[x] # place[y]
    OBVIOUS
  <2>1. Before(x, y) \/ Before(y, x)
    BY NamesAreOrdered
  <2> QED BY <1>1, <1>2, <1>3, <2>1
<1>5. place \in Injection(D, 0..size - 1)
  <2>1. place \in [D -> 0..size - 1]
    BY <1>2 DEF place
  <2> QED BY <1>4, <2>1 DEF Injection, IsInjective
<1>6. IsFiniteSet(0..size - 1) /\ Cardinality(0..size - 1) = size
  <2>1. 0 \in Int /\ size - 1 \in Int
    BY <1>1
  <2>2. /\ IsFiniteSet(0..size - 1)
        /\ Cardinality(0..size - 1) = IF 0 > size - 1 THEN 0 ELSE size - 1 - 0 + 1
    BY <2>1, FS_Interval
  <2> HIDE DEF size
  <2> QED BY <1>1, <2>2
<1>7. place \in Surjection(D, 0..size - 1)
  BY <1>5, <1>6, FS_Injection
<1>8. Oldest(D, k) = {x \in D : place[x] < k}
  BY DEF Oldest, place
<1>9. first \in [Oldest(D, k) -> 0..k - 1]
  BY <1>1, <1>2, <1>8
<1>10. first \in Bijection(Oldest(D, k), 0..k - 1)
  <2>1. \A x, y \in Oldest(D, k) : first[x] = first[y] => x = y
    BY <1>4, <1>8
  <2>2. ASSUME NEW i \in 0..k - 1 PROVE \E x \in Oldest(D, k) : first[x] = i
    <3>1. i \in 0..size - 1 /\ i < k
      BY <1>1
    <3>2. PICK x \in D : place[x] = i
      BY <1>7, <3>1 DEF Surjection
    <3> QED BY <1>8, <3>1, <3>2
  <2> HIDE DEF first
  <2> QED BY <1>9, <2>1, <2>2 DEF Bijection, Injection, IsInjective, Surjection
<1>11. IsFiniteSet(Oldest(D, k))
  BY <1>8, FS_Subset
<1>12. Cardinality(0..k - 1) = k
  BY <1>1, FS_Interval
<1> QED BY <1>10, <1>11, <1>12, FS_Bijection DEF ExistsBijection

(* A copy that is saved: what the folder has afterwards.                   *)
LEMMA SavesWhat ==
  ASSUME StoreInv, NEW fmt \in Formats, NEW cap, Saves(fmt, cap)
  PROVE  \E name \in Name, k \in Int :
           /\ name.time = clock /\ name \notin DOMAIN files
           /\ k \in 0..Excess(DOMAIN files \cup {name}, cap)
           /\ DOMAIN files' = (DOMAIN files \cup {name}) \ Oldest(DOMAIN files \cup {name}, k)
           /\ \A a \in DOMAIN files' :
                files'[a] = IF a = name THEN copies + 1 ELSE files[a]
           /\ files' \in [DOMAIN files' -> 0..MaxCopies]
<1>1. PICK n \in 0..MaxCopies :
        /\ IsFree(fmt, n)
        /\ LET new == With([time |-> clock, n |-> n, fmt |-> fmt])
           IN \E k \in 0..Excess(DOMAIN new, cap) :
                files' = Without(new, Oldest(DOMAIN new, k))
  BY DEF Saves
<1> DEFINE name == [time |-> clock, n |-> n, fmt |-> fmt]
           new == With(name)
<1>2. PICK k \in 0..Excess(DOMAIN new, cap) : files' = Without(new, Oldest(DOMAIN new, k))
  BY <1>1
<1>3. /\ k \in Int
      /\ DOMAIN new = DOMAIN files \cup {name} /\ k \in 0..Excess(DOMAIN new, cap)
  BY DEF With
<1>4. name \in Name /\ name.time = clock /\ name \notin DOMAIN files
  BY <1>1, BoundsAssumption DEF Name, IsFree, StoreInv, StoreTypeOK
<1> HIDE DEF name
<1>5. DOMAIN new = DOMAIN files \cup {name}
      /\ \A a \in DOMAIN new : new[a] = IF a = name THEN copies + 1 ELSE files[a]
  BY DEF With
<1>6. files' = [a \in DOMAIN new \ Oldest(DOMAIN new, k) |-> new[a]]
  BY <1>2 DEF Without, Restrict
<1> HIDE DEF new
<1>7. DOMAIN files' = (DOMAIN files \cup {name}) \ Oldest(DOMAIN files \cup {name}, k)
      /\ \A a \in DOMAIN files' : files'[a] = IF a = name THEN copies + 1 ELSE files[a]
  BY <1>5, <1>6
<1>8. copies + 1 \in 0..MaxCopies
  BY BoundsAssumption DEF Saves, Counts, StoreInv, StoreTypeOK
<1>9. \A a \in DOMAIN files' : files'[a] \in 0..MaxCopies
  BY <1>7, <1>8 DEF StoreInv, StoreTypeOK
<1>10. files' \in [DOMAIN files' -> 0..MaxCopies]
  BY <1>6, <1>9
<1> QED BY <1>3, <1>4, <1>7, <1>10

(* It keeps StoreInv, overwrites nothing and removes the oldest.           *)
LEMMA SavesRight ==
  ASSUME StoreInv, NEW fmt \in Formats, NEW cap, Saves(fmt, cap)
  PROVE  /\ StoreInv'
         /\ \A a \in DOMAIN files \cap DOMAIN files' : files'[a] = files[a]
         /\ \A a \in DOMAIN files \ DOMAIN files', b \in DOMAIN files' :
              ~ wentBack /\ files'[b] > 0 /\ a.time # b.time => files[a] < files'[b]
<1>1. PICK name \in Name, k \in Int :
        /\ name.time = clock /\ name \notin DOMAIN files
        /\ DOMAIN files' = (DOMAIN files \cup {name}) \ Oldest(DOMAIN files \cup {name}, k)
        /\ \A a \in DOMAIN files' :
             files'[a] = IF a = name THEN copies + 1 ELSE files[a]
        /\ files' \in [DOMAIN files' -> 0..MaxCopies]
  BY SavesWhat
<1> DEFINE D == DOMAIN files \cup {name}
<1>2. /\ D \subseteq Name /\ IsFiniteSet(D) /\ DOMAIN files' \subseteq D
      /\ IsFiniteSet(DOMAIN files')
  BY <1>1, FS_AddElement, FS_Subset DEF StoreInv, StoreTypeOK
<1>3. /\ copies \in Nat /\ clock \in Int /\ copies' = copies + 1
      /\ clock' = clock /\ wentBack' = wentBack
      /\ \A a \in Name : a.time \in Int
      /\ \A a \in DOMAIN files : files[a] \in Nat
  BY BoundsAssumption DEF StoreInv, StoreTypeOK, Saves, Counts, Name
<1>4. StoreTypeOK'
  <2>1. copies' \in 0..MaxCopies
    BY <1>3, BoundsAssumption DEF StoreInv, StoreTypeOK, Saves, Counts
  <2> QED BY <1>1, <1>2, <1>3, <2>1 DEF StoreInv, StoreTypeOK
<1>5. \A a \in DOMAIN files' : files'[a] <= copies' /\ files'[a] \in Nat
  BY <1>1, <1>2, <1>3 DEF StoreInv
<1>6. ~ wentBack => \A a \in DOMAIN files' : files'[a] > 0 => a.time <= clock
  BY <1>1, <1>2, <1>3 DEF StoreInv
<1>7. ~ wentBack => \A a, b \in DOMAIN files' :
                      files'[b] > 0 /\ a.time < b.time => files'[a] < files'[b]
  <2> SUFFICES ASSUME ~ wentBack, NEW a \in DOMAIN files', NEW b \in DOMAIN files',
                      files'[b] > 0, a.time < b.time
               PROVE  files'[a] < files'[b]
    OBVIOUS
  <2>1. a \in Name /\ b \in Name /\ b.time <= clock
    BY <1>2, <1>6
  <2>2. a # name /\ a \in DOMAIN files /\ files'[a] = files[a]
    <3>1. a.time < clock
      BY <1>3, <2>1
    <3>2. a # name
      BY <1>1, <1>3, <3>1
    <3> QED BY <1>1, <3>2
  <2>3. CASE b = name
    <3>1. files'[b] = copies + 1 /\ files[a] <= copies /\ files[a] \in Nat
      BY <1>1, <1>3, <2>2, <2>3 DEF StoreInv
    <3> QED BY <1>3, <2>2, <3>1
  <2>4. CASE b # name
    BY <1>1, <1>2, <2>2, <2>4 DEF StoreInv
  <2> QED BY <2>3, <2>4
<1>8. StoreInv'
  BY <1>2, <1>3, <1>4, <1>5, <1>6, <1>7 DEF StoreInv
<1>9. ASSUME NEW a \in DOMAIN files \ DOMAIN files', NEW b \in DOMAIN files',
             ~ wentBack, files'[b] > 0, a.time # b.time
      PROVE  files[a] < files'[b]
  <2>1. a \in Oldest(D, k) /\ b \in D \ Oldest(D, k)
    BY <1>1
  <2>2. a.time <= b.time
    BY <1>2, <2>1, OldestAreEarlier
  <2>3. a.time < b.time
    BY <1>2, <1>3, <1>9, <2>1, <2>2
  <2>4. CASE b = name
    BY <1>1, <1>3, <2>4 DEF StoreInv
  <2>5. CASE b # name
    BY <1>1, <1>9, <2>1, <2>3, <2>5 DEF StoreInv
  <2> QED BY <2>4, <2>5
<1> QED BY <1>1, <1>8, <1>9

(* The folder at a step of the programs.                                   *)
LEMMA StoreStep ==
  ASSUME StoreInv, [Next]_vars
  PROVE  /\ StoreInv'
         /\ \A a \in DOMAIN files \cap DOMAIN files' : files'[a] = files[a]
         /\ \A a \in DOMAIN files \ DOMAIN files', b \in DOMAIN files' :
              ~ wentBack /\ files'[b] > 0 /\ a.time # b.time => files[a] < files'[b]
<1>1. CASE UNCHANGED storeVars
  BY <1>1 DEF storeVars, StoreInv, StoreTypeOK
<1>2. CASE Clock
  <2>1. /\ files' = files /\ copies' = copies
        /\ \/ clock < MaxClock /\ clock' = clock + 1 /\ wentBack' = wentBack
           \/ clock' \in 1..clock - 1 /\ wentBack' = TRUE
        /\ clock \in 1..MaxClock
    BY <1>2 DEF Clock, ClockTicks, ClockIsSetBack, StoreInv, StoreTypeOK
  <2>2. clock' \in 1..MaxClock
    BY <2>1, BoundsAssumption
  <2>3. wentBack' \in BOOLEAN
    BY <2>1, Zenon DEF StoreInv, StoreTypeOK
  <2>4. clock \in Int /\ clock' \in Int /\ \A a \in DOMAIN files : a.time \in Int
    BY <2>1, <2>2, BoundsAssumption DEF StoreInv, StoreTypeOK, Name
  <2> QED BY <2>1, <2>2, <2>3, <2>4 DEF StoreInv, StoreTypeOK
<1>3. CASE take_screenshot
  <2>1. CASE UNCHANGED storeVars
    BY <1>1, <2>1
  <2>2. CASE \E fmt \in Formats : SavesCopy(fmt)
    <3>1. \/ CannotSave
          \/ \E fmt \in Formats, cap \in {0, settings.max_saved_screenshots} : Saves(fmt, cap)
      BY <2>2 DEF SavesCopy
    <3>2. CASE CannotSave
      <4>1. /\ UNCHANGED <<files, clock, wentBack>> /\ copies' = copies + 1
            /\ copies' \in 0..MaxCopies /\ copies \in Nat
            /\ \A a \in DOMAIN files : files[a] \in Nat
        BY <3>2, BoundsAssumption DEF CannotSave, Counts, StoreInv, StoreTypeOK
      <4> QED BY <4>1 DEF StoreInv, StoreTypeOK
    <3>3. CASE \E fmt \in Formats, cap \in {0, settings.max_saved_screenshots} :
                 Saves(fmt, cap)
      BY <3>3, SavesRight
    <3> QED BY <3>1, <3>2, <3>3
  <2> QED BY <1>3, <2>1, <2>2 DEF take_screenshot
<1>4. \/ UNCHANGED storeVars \/ Clock \/ take_screenshot
  BY DEF Next, vars, BrokerStarts, BrokerStops, BrokerIsConfigured, Starts, Connects, Fetches,
     ChecksHealth, Stops
<1> QED BY <1>1, <1>2, <1>3, <1>4

LEMMA StoreInvariant == Spec => []StoreInv
<1>1. StoreInv /\ [Next]_vars => StoreInv'
  BY StoreStep
<1> QED BY <1>1, StoreInvInit, PTL DEF Spec

(* No copy is ever overwritten, whatever the clock does and however often  *)
(* the server is started again (server.py, the counter of                  *)
(* _save_screenshot), for any number of copies.                            *)
THEOREM CopiesKept == Spec => CopiesAreKept
<1>1. StoreInv /\ [Next]_vars =>
        [\A a \in DOMAIN files \cap DOMAIN files' : files'[a] = files[a]]_vars
  BY StoreStep
<1> QED BY <1>1, StoreInvariant, PTL DEF Spec, CopiesAreKept

(* What is removed is older than what stays of other ticks, while the      *)
(* clock is not set back (server.py, _prune_old_screenshots), for every    *)
(* maximum, every content of the folder and every point where an OSError   *)
(* ends the pruning.                                                       *)
THEOREM OldestPruned == Spec => OldestGoFirst
<1>1. StoreInv /\ [Next]_vars =>
        [\A a \in DOMAIN files \ DOMAIN files', b \in DOMAIN files' :
           ~ wentBack /\ files'[b] > 0 /\ a.time # b.time => files[a] < files'[b]]_vars
  BY StoreStep
<1> QED BY <1>1, StoreInvariant, PTL DEF Spec, OldestGoFirst

(* When pruning removes anything there is a maximum, and as many files as  *)
(* it are left: neither the comparison with the count nor an OSError       *)
(* half-way takes one too many (server.py, excess).                        *)
PrunesNoMore ==
  [][ DOMAIN files \ DOMAIN files' # {} /\ settings.max_saved_screenshots \in Int =>
        /\ settings.max_saved_screenshots > 0
        /\ Cardinality(DOMAIN files') >= settings.max_saved_screenshots ]_vars

(* A copy that is saved, for a maximum.                                    *)
LEMMA SavesEnough ==
  ASSUME StoreInv, NEW fmt \in Formats, NEW cap \in Int, Saves(fmt, cap),
         DOMAIN files \ DOMAIN files' # {}
  PROVE  cap > 0 /\ Cardinality(DOMAIN files') >= cap
<1>1. PICK name \in Name, k \in Int :
        /\ k \in 0..Excess(DOMAIN files \cup {name}, cap)
        /\ DOMAIN files' = (DOMAIN files \cup {name}) \ Oldest(DOMAIN files \cup {name}, k)
  BY SavesWhat
<1> DEFINE D == DOMAIN files \cup {name}
           size == Cardinality(D)
<1>2. D \subseteq Name /\ IsFiniteSet(D) /\ size \in Nat
  BY <1>1, FS_AddElement, FS_CardinalityType DEF StoreInv, StoreTypeOK
<1>3. Oldest(D, k) # {} /\ Oldest(D, k) \subseteq D
  BY <1>1 DEF Oldest
<1>4. IsFiniteSet(Oldest(D, k))
  BY <1>2, <1>3, FS_Subset
<1>5. Excess(D, cap) = (IF cap <= 0 \/ size <= cap THEN 0 ELSE size - cap)
  BY DEF Excess
<1>6. k # 0
  <2> SUFFICES ASSUME k = 0 PROVE FALSE
    OBVIOUS
  <2>1. PICK x \in D : Cardinality({b \in D : Before(b, x)}) < 0
    BY <1>3 DEF Oldest
  <2>2. IsFiniteSet({b \in D : Before(b, x)})
    BY <1>2, FS_Subset
  <2> QED BY <2>1, <2>2, FS_CardinalityType
<1> HIDE DEF D, size
<1>7. cap > 0 /\ cap < size /\ k \in 0..size /\ k <= size - cap
  <2>1. k \in 0..Excess(D, cap)
    BY <1>1 DEF D
  <2> QED BY <1>2, <1>5, <1>6, <2>1
<1>8. Cardinality(Oldest(D, k)) = k
  BY <1>2, <1>7, OldestCount DEF size
<1>9. Cardinality(D \ Oldest(D, k)) = size - k
  <2>1. IsFiniteSet(D \ Oldest(D, k)) /\ Cardinality(D \ Oldest(D, k)) \in Nat
    BY <1>2, FS_Subset, FS_CardinalityType
  <2>2. /\ (D \ Oldest(D, k)) \cup Oldest(D, k) = D
        /\ (D \ Oldest(D, k)) \cap Oldest(D, k) = {}
    BY <1>3
  <2>3. size = Cardinality(D \ Oldest(D, k)) + Cardinality(Oldest(D, k)) - Cardinality({})
    BY <1>4, <2>1, <2>2, FS_Union DEF size
  <2> QED BY <1>2, <1>7, <1>8, <2>1, <2>3, FS_EmptySet
<1> QED BY <1>1, <1>2, <1>7, <1>9 DEF D

(* Pruning stops at the maximum (server.py, _prune_old_screenshots), for   *)
(* every maximum, pushed ones too, every content of the folder and every   *)
(* point where an OSError ends it.                                         *)
THEOREM PrunedToTheMaximum == Spec => PrunesNoMore
<1> DEFINE max == settings.max_saved_screenshots
<1>1. ASSUME StoreInv, Next, max \in Int, DOMAIN files \ DOMAIN files' # {}
      PROVE  max > 0 /\ Cardinality(DOMAIN files') >= max
  <2>1. files' # files
    BY <1>1
  <2>2. take_screenshot
    BY <1>1, <2>1 DEF Next, storeVars, Clock, ClockTicks, ClockIsSetBack, BrokerStarts, BrokerStops,
       BrokerIsConfigured, Starts, Connects, Fetches, ChecksHealth, Stops
  <2>3. PICK fmt \in Formats : SavesCopy(fmt)
    BY <2>1, <2>2 DEF take_screenshot, storeVars
  <2>4. Saves(fmt, max) \/ Saves(fmt, 0)
    BY <2>1, <2>3 DEF SavesCopy, CannotSave
  <2>5. ~ Saves(fmt, 0)
    <3>1. 0 \in Int /\ ~ (0 > 0)
      OBVIOUS
    <3> QED BY <1>1, <3>1, SavesEnough
  <2> QED BY <1>1, <2>4, <2>5, SavesEnough
<1>2. StoreInv /\ [Next]_vars =>
        [DOMAIN files \ DOMAIN files' # {} /\ max \in Int =>
           max > 0 /\ Cardinality(DOMAIN files') >= max]_vars
  BY <1>1
<1> QED BY <1>2, StoreInvariant, PTL DEF Spec, PrunesNoMore

-----------------------------------------------------------------------------
(* The rest of the state.                                                  *)

RestInv ==
  /\ brokerConfig \in BrokerConfigs
  /\ brokerUp \in BOOLEAN
  /\ program \in {"mcp", "automation"}
  /\ config \in Configs \cup {None}
  /\ shot \in {"none", "not_taken", "shown", "broken"}

LEMMA RestStep == RestInv /\ [Next]_vars => RestInv'
<1> SUFFICES ASSUME RestInv, [Next]_vars PROVE RestInv'
  OBVIOUS
<1>1. CASE UNCHANGED vars
  BY <1>1 DEF vars, brokerVars, programVars, RestInv
<1>2. CASE BrokerStarts
  BY <1>2, Zenon DEF BrokerStarts, RestInv, programVars
<1>3. CASE BrokerStops
  BY <1>3, Zenon DEF BrokerStops, RestInv, programVars
<1>4. CASE BrokerIsConfigured
  BY <1>4, Zenon DEF BrokerIsConfigured, RestInv, programVars
<1>5. ASSUME NEW p \in {"mcp", "automation"}, NEW c \in Configs, Starts(p, c)
      PROVE  RestInv'
  BY <1>5 DEF Starts, RestInv, brokerVars
<1>6. CASE Connects \/ Fetches \/ ChecksHealth \/ Stops
  BY <1>6 DEF Connects, Fetches, ChecksHealth, Stops, RestInv, brokerVars
<1>7. CASE take_screenshot
  BY <1>7 DEF take_screenshot, SavesCopy, RestInv, brokerVars
<1>8. CASE Clock
  BY <1>8 DEF Clock, RestInv, brokerVars, programVars
<1> QED BY <1>1, <1>2, <1>3, <1>4, <1>5, <1>6, <1>7, <1>8 DEF Next

(* The state is of its type throughout: a program that has got past the    *)
(* check of its configuration has a valid one and all of its settings, a   *)
(* broker that is up a valid one, and the folder has names of copies and   *)
(* numbers that were given (config.py of both, server.py).                 *)
THEOREM TypesRight == Spec => []TypeOK
<1>1. Init => RestInv
  <2>1. Init => brokerUp \in BOOLEAN
    BY Zenon DEF Init
  <2> QED BY <2>1 DEF Init, RestInv
<1>2. StartInv /\ ShotInv /\ StoreInv /\ RestInv => TypeOK
  <2> SUFFICES ASSUME StartInv, ShotInv, StoreInv, RestInv PROVE TypeOK
    OBVIOUS
  <2>1. phase \in Phases \ Over =>
          phase \in {"connect", "fetch", "health", "running", "serving"}
    BY DEF Phases
  <2> QED BY <2>1 DEF StartInv, StoreInv, RestInv, TypeOK
<1> QED BY <1>1, <1>2, RestStep, StartInvariant, StoreInvariant, PTL DEF Spec
=============================================================================
