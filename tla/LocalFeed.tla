------------------------------- MODULE LocalFeed -------------------------------
(***************************************************************************)
(* The two scripts that fill the local package feeds from a checkout of    *)
(* the platform: build-local-feed.mjs of the Blazor application, which     *)
(* writes the version a restore quotes, and of the React application,      *)
(* which unpacks what it packed.  Either may stop at any point and leave   *)
(* the feed as it is; that includes the recursive removal of the old feed, *)
(* which takes one file after another in no order the script knows, and    *)
(* the unpacking of a package, which writes one file after another.        *)
(*                                                                         *)
(* A definition whose name ends in Mutant is a plausible slip in the one   *)
(* after it; no action uses one.                                           *)
(***************************************************************************)
EXTENDS Optional

CONSTANTS
    Projects,       \* what is packed, by package id
    Versions,       \* package versions: hashes of the platform's content
    Assemblies,     \* the assemblies a package may carry
    Producers       \* the assembly of each package, by the pin

ASSUME VersionsAssumption == None \notin Versions
ASSUME ProducersAssumption == Producers \in [Projects -> Assemblies]

VARIABLES
    feed,       \* the package of each project in the Blazor feed, or None
    props,      \* packed-version.props: the version, or None
    tarballs,   \* the tarball of each project in the React feed, or None
    unpacked,   \* the directory of each package the React application installs
    made,       \* the lanes whose feed directory exists
    copied,     \* the lanes whose feed holds the released definitions
    builder,    \* the script under way, or None
    torn        \* the lanes whose last script stopped amid files (history)

Lanes == {"blazor", "react"}

feeds == <<feed, props, tarballs, unpacked, made, copied, builder, torn>>

\* needs: the package depends on first-party packages this feed does not name.
Package == [version : Versions, assembly : Assemblies, needs : BOOLEAN]
Tarball == [dist : BOOLEAN]

\* partial: some of its files are there; hollow: all are, and none is code.
Directory == {"none", "partial", "hollow", "coded"}

Stages == {"remove", "pack", "fill", "copy"}

\* A script under way, with the projects it has yet to pack or to unpack.
Builder == [lane : Lanes, version : Versions, left : SUBSET Projects, stage : Stages]

ASSUME AbsentPackageAssumption ==
    None \notin Package /\ None \notin Tarball /\ None \notin Builder

FeedTypeOK ==
    /\ feed \in [Projects -> Maybe(Package)]
    /\ props \in Maybe(Versions)
    /\ tarballs \in [Projects -> Maybe(Tarball)]
    /\ unpacked \in [Projects -> Directory]
    /\ made \subseteq Lanes
    /\ copied \subseteq Lanes
    /\ builder \in Maybe(Builder)
    /\ torn \subseteq Lanes

Empty == [p \in Projects |-> None]
NoDirectories == [p \in Projects |-> "none"]

FeedInit ==
    /\ feed = Empty
    /\ props = None
    /\ tarballs = Empty
    /\ unpacked = NoDirectories
    /\ made = {}
    /\ copied = {}
    /\ builder = None
    /\ torn = {}

\* What a build of both feeds that ended well leaves, and what one that was
\* interrupted early does: a verification asks for the directories, and what it
\* restores asks for the version.
FeedBuilt ==
    \E version \in Versions :
        /\ feed = [p \in Projects |-> [version |-> version, assembly |-> Producers[p],
                                      needs |-> FALSE]]
        /\ props = version
        /\ tarballs = [p \in Projects |-> [dist |-> TRUE]]
        /\ unpacked = [p \in Projects |-> "coded"]
        /\ made = Lanes
        /\ copied = Lanes
        /\ builder = None
        /\ torn = {}

FeedInterrupted ==
    /\ feed = Empty
    /\ props = None
    /\ tarballs = Empty
    /\ unpacked = NoDirectories
    /\ made = Lanes
    /\ copied = {}
    /\ builder = None
    /\ torn = {}

\* The version is computed before the old feed is removed.
Begin(lane) ==
    /\ builder = None
    /\ \E version \in Versions :
          builder' = [lane |-> lane, version |-> version, left |-> Projects,
                      stage |-> "remove"]
    /\ UNCHANGED <<feed, props, tarballs, unpacked, made, copied, torn>>

BeginBlazorFeed == Begin("blazor")
BeginReactFeed == Begin("react")

-----------------------------------------------------------------------------
(***************************************************************************)
(* The removal of the old feed, file by file.                              *)
(***************************************************************************)

Removing(lane) == builder # None /\ builder.lane = lane /\ builder.stage = "remove"

\* The first of the definitions' files goes, and the others with it.
RemoveDefinitions ==
    /\ \E lane \in copied : Removing(lane) /\ copied' = copied \ {lane}
    /\ UNCHANGED <<feed, props, tarballs, unpacked, made, builder, torn>>

RemovePackage ==
    /\ Removing("blazor")
    /\ \E p \in Projects : feed[p] # None /\ feed' = [feed EXCEPT ![p] = None]
    /\ UNCHANGED <<props, tarballs, unpacked, made, copied, builder, torn>>

RemoveVersion ==
    /\ Removing("blazor")
    /\ props # None
    /\ props' = None
    /\ UNCHANGED <<feed, tarballs, unpacked, made, copied, builder, torn>>

RemoveTarball ==
    /\ Removing("react")
    /\ \E p \in Projects : tarballs[p] # None /\ tarballs' = [tarballs EXCEPT ![p] = None]
    /\ UNCHANGED <<feed, props, unpacked, made, copied, builder, torn>>

RemoveUnpacked ==
    /\ Removing("react")
    /\ \E p \in Projects :
          \/ unpacked[p] \in {"hollow", "coded"} /\ unpacked' = [unpacked EXCEPT ![p] = "partial"]
          \/ unpacked[p] = "partial" /\ unpacked' = [unpacked EXCEPT ![p] = "none"]
    /\ UNCHANGED <<feed, props, tarballs, made, copied, builder, torn>>

Cleared(lane) ==
    /\ lane \notin copied
    /\ lane = "blazor" => feed = Empty /\ props = None
    /\ lane = "react" => tarballs = Empty /\ unpacked = NoDirectories

RemoveDirectory ==
    /\ \E lane \in made : Removing(lane) /\ Cleared(lane) /\ made' = made \ {lane}
    /\ UNCHANGED <<feed, props, tarballs, unpacked, copied, builder, torn>>

MakeDirectory ==
    /\ \E lane \in Lanes \ made :
          /\ Removing(lane)
          /\ made' = made \cup {lane}
          /\ torn' = torn \ {lane}
    /\ builder' = [builder EXCEPT !.stage = "pack"]
    /\ UNCHANGED <<feed, props, tarballs, unpacked, copied>>

Remove ==
    \/ RemoveDefinitions \/ RemovePackage \/ RemoveVersion \/ RemoveTarball
    \/ RemoveUnpacked \/ RemoveDirectory \/ MakeDirectory

-----------------------------------------------------------------------------
Packing(lane) == builder # None /\ builder.lane = lane /\ builder.stage = "pack"

\* What a project packs to is the platform's affair.
PackBlazor ==
    /\ Packing("blazor")
    /\ \E p \in builder.left :
          /\ \E package \in Maybe(Package) : feed' = [feed EXCEPT ![p] = package]
          /\ builder' = [builder EXCEPT !.left = @ \ {p}]
    /\ UNCHANGED <<props, tarballs, unpacked, made, copied, torn>>

PackReact ==
    /\ Packing("react")
    /\ \E p \in builder.left :
          /\ \E tarball \in Maybe(Tarball) : tarballs' = [tarballs EXCEPT ![p] = tarball]
          /\ builder' = [builder EXCEPT !.left = @ \ {p}]
    /\ UNCHANGED <<feed, props, unpacked, made, copied, torn>>

-----------------------------------------------------------------------------
\* Every dependency is packed beside its package (missing).
Closed == \A p \in Projects : feed[p] # None => ~feed[p].needs

\* The feed holds the packages the pin records, each with its assembly.
Produced == \A p \in Projects : feed[p] # None /\ feed[p].assembly = Producers[p]

VersionedMutant == TRUE

\* All were packed at the version that will be quoted (misversioned).
Versioned == \A p \in Projects : feed[p] # None => feed[p].version = builder.version

\* The version is recorded when the checks have passed.
RecordVersion ==
    /\ Packing("blazor")
    /\ builder.left = {}
    /\ Closed /\ Produced /\ Versioned
    /\ props' = builder.version
    /\ builder' = [builder EXCEPT !.stage = "copy"]
    /\ UNCHANGED <<feed, tarballs, unpacked, made, copied, torn>>

\* Every project gave a tarball and every tarball holds code.
CheckReactFeed ==
    /\ Packing("react")
    /\ builder.left = {}
    /\ \A p \in Projects : tarballs[p] # None /\ tarballs[p].dist
    /\ builder' = [builder EXCEPT !.stage = "fill", !.left = Projects]
    /\ UNCHANGED <<feed, props, tarballs, unpacked, made, copied, torn>>

Filling == builder # None /\ builder.stage = "fill"

\* The tarballs are extracted one after the other.
StartUnpacking ==
    /\ Filling
    /\ \A p \in Projects : unpacked[p] # "partial"
    /\ \E p \in builder.left : unpacked' = [unpacked EXCEPT ![p] = "partial"]
    /\ UNCHANGED <<feed, props, tarballs, made, copied, builder, torn>>

Unpack ==
    /\ Filling
    /\ \E p \in builder.left :
          /\ unpacked[p] = "partial"
          /\ unpacked' = [unpacked EXCEPT ![p] = IF tarballs[p].dist THEN "coded" ELSE "hollow"]
          /\ builder' = [builder EXCEPT !.left = @ \ {p}]
    /\ UNCHANGED <<feed, props, tarballs, made, copied, torn>>

Filled ==
    /\ Filling
    /\ builder.left = {}
    /\ builder' = [builder EXCEPT !.stage = "copy"]
    /\ UNCHANGED <<feed, props, tarballs, unpacked, made, copied, torn>>

\* Last, the released definitions and the cases of the platform's own renderers
\* are copied out of the checkout.
CopyDefinitions ==
    /\ builder # None
    /\ builder.stage = "copy"
    /\ copied' = copied \cup {builder.lane}
    /\ builder' = None
    /\ UNCHANGED <<feed, props, tarballs, unpacked, made, torn>>

\* The script is amid the files of its feed.
Amid(lane) == builder # None /\ builder.lane = lane /\ builder.stage \in {"remove", "fill"}

\* A check that throws, a command that fails, or a script that is killed.
AbortFeed ==
    /\ builder # None
    /\ builder' = None
    /\ torn' = torn \cup {lane \in Lanes : Amid(lane)}
    /\ UNCHANGED <<feed, props, tarballs, unpacked, made, copied>>

FeedStep ==
    \/ Remove \/ PackBlazor \/ PackReact \/ RecordVersion \/ CheckReactFeed
    \/ StartUnpacking \/ Unpack \/ Filled \/ CopyDefinitions \/ AbortFeed

-----------------------------------------------------------------------------
\* No script is amid the files of the feed, and none was when it stopped.
Settled(lane) == lane \notin torn /\ ~Amid(lane)

\* Wherever a build stopped, a restore that quotes a version finds no package of
\* another version, from another producer or without its dependencies' names, and
\* no directory is complete and without code.  Unless a script is amid the files
\* of the feed, or the last one stopped there, a quoted feed holds every package,
\* no directory is half filled, and a feed that holds the definitions holds all
\* the rest (the order of the checks, and the version kept inside the feed).  The
\* exception is real: a stop amid the removal can leave the version and take
\* packages, and one amid the unpacking leaves part of a package.
FeedIsWhole ==
    /\ props # None =>
         \A p \in Projects : feed[p] # None =>
             /\ feed[p].version = props
             /\ feed[p].assembly = Producers[p]
             /\ ~feed[p].needs
    /\ \A p \in Projects : unpacked[p] # "hollow"
    /\ Settled("blazor") =>
         /\ props # None => \A p \in Projects : feed[p] # None
         /\ "blazor" \in copied => props # None
    /\ Settled("react") =>
         /\ \A p \in Projects : unpacked[p] # "partial"
         /\ "react" \in copied => \A p \in Projects : unpacked[p] = "coded"

=============================================================================
