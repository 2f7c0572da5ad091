------------------------------ MODULE UsbDoctor ------------------------------
(* Which serial port carries the link: the I/O Registry as a tree of        *)
(* entries, the devices found in it, what each can do, the ranking of the   *)
(* ports and what the user is told (src/jornada/usb_registry.py,            *)
(* usb_profiles.py, usb_doctor.py and usb_cli.py); and the port that each   *)
(* program that starts the link opens (bin/jornada-ppp, bin/jornada-connect *)
(* with bin/jornada-setup-passwordless, and the app's PppController.swift). *)
(*                                                                          *)
(* A registry is [roots, entry, children]: ids, id -> attributes, id -> ids *)
(* in order.  A path is a number, in the order of the names; NoPath is      *)
(* smaller than all.                                                        *)
EXTENDS Integers, SequencesExt

CONSTANTS
    Profiles,      \* <<vendor, product>> -> [role, driver]; product AnyProduct is the whole vendor
    AnyProduct,
    Apple          \* the drivers whose bundle id starts with com.apple.

NoPath == 0
SERIAL_BRIDGE == "serial-bridge"
DOCK_BRIDGE == "dock-bridge"
WINCE_USB_SYNC == "wince-usb-sync"
CDC_ACM == [role |-> SERIAL_BRIDGE, driver |-> "built-in"]
HUB == 9
None == "none"

------------------------------------------------------------------------------
(* usb_registry.py *)
driver_of(reg, n) == reg.entry[n].driver

(* The interfaces and the tty nodes below a device, up to the next device.  *)
RECURSIVE interfaces(_, _)
interfaces(reg, n) ==
    LET own(c) == IF reg.entry[c].class = "interface" THEN <<reg.entry[c].usb>> ELSE <<>>
        kids == SelectSeq(reg.children[n], LAMBDA c : reg.entry[c].class # "device")
    IN FlattenSeq([k \in DOMAIN kids |-> own(kids[k]) \o interfaces(reg, kids[k])])
RECURSIVE tty_nodes(_, _, _)
tty_nodes(reg, n, parent_driver) ==
    LET own(c) == IF reg.entry[c].class = "serial" /\ reg.entry[c].path # NoPath
                  THEN <<[path |-> reg.entry[c].path, driver |-> parent_driver, writable |-> reg.entry[c].access]>>
                  ELSE <<>>
        passed(c) == IF driver_of(reg, c) # None THEN driver_of(reg, c) ELSE parent_driver
        kids == SelectSeq(reg.children[n], LAMBDA c : reg.entry[c].class # "device")
    IN FlattenSeq([k \in DOMAIN kids |-> own(kids[k]) \o tty_nodes(reg, kids[k], passed(kids[k]))])

ByPath(s) == SortSeq(s, LAMBDA a, b : a.path < b.path)
device_from(reg, n) ==
    [id |-> n, vid_pid |-> reg.entry[n].usb, marked |-> reg.entry[n].marked, usb_class |-> reg.entry[n].usb_class,
     location_id |-> reg.entry[n].location, interfaces |-> interfaces(reg, n),
     serial_nodes |-> ByPath(tty_nodes(reg, n, None))]
is_hub(d) == d.usb_class = HUB \/ \E k \in DOMAIN d.interfaces : d.interfaces[k][1] = HUB

RECURSIVE walk(_, _)
walk(reg, n) ==
    (IF reg.entry[n].class = "device" THEN {n} ELSE {}) \cup UNION {walk(reg, c) : c \in ToSet(reg.children[n])}
parse_registry(reg) ==      \* each device once, however often it is printed
    LET seen == UNION {walk(reg, n) : n \in ToSet(reg.roots)}
        before(a, b) == \/ a.location_id < b.location_id
                        \/ a.location_id = b.location_id /\ a.id < b.id
    IN SetToSortSeq({device_from(reg, n) : n \in seen}, before)
usb_devices(devices) == SelectSeq(devices, LAMBDA d : ~is_hub(d))

------------------------------------------------------------------------------
(* usb_profiles.py.  Optional results are sequences of at most one. *)
profile_for(vid_pid) ==
    LET exact == {vid_pid, <<vid_pid[1], AnyProduct>>} \cap DOMAIN Profiles
    IN IF vid_pid \in exact THEN <<Profiles[vid_pid]>> ELSE [k \in 1..Cardinality(exact) |-> Profiles[<<vid_pid[1], AnyProduct>>]]
classify(d) ==
    LET known == profile_for(d.vid_pid)
        acm == IF <<2, 2>> \in ToSet(d.interfaces) THEN <<CDC_ACM>> ELSE <<>>
        profile == IF known # <<>> THEN known ELSE acm
    IN [k \in DOMAIN profile |->
           [driver |-> profile[k].driver,
            role |-> IF profile[k].role = SERIAL_BRIDGE /\ d.marked THEN DOCK_BRIDGE ELSE profile[k].role]]

MODEL_NUMBERS == <<"680e", "690e", "680", "690", "710", "720", "728">>
(* name: [jornada |-> is "jornada" in it, holds |-> the numbers in it,      *)
(*        ends |-> those it ends with or has after a "j"].                  *)
identify_handheld(hardware, name) ==
    LET numbers == SelectSeq(MODEL_NUMBERS, LAMBDA n : n \in (IF name.jornada THEN name.holds ELSE name.ends))
    IN IF numbers # <<>> THEN numbers[1]
       ELSE IF hardware = "SH3" THEN "sh3-hpc-pro-family"
       ELSE IF hardware = "ARM" THEN "sa1110-hpc2000-family" ELSE None
architecture(handheld) ==
    CASE handheld \in {"680", "680e", "690", "690e", "sh3-hpc-pro-family"} -> "SH3"
      [] handheld \in {"710", "720", "728", "sa1110-hpc2000-family"} -> "ARM"
      [] OTHER -> None

------------------------------------------------------------------------------
(* usb_doctor.py *)
classify_devices(devices) ==
    LET plain == usb_devices(devices)
    IN [k \in DOMAIN plain |-> [device |-> plain[k], classification |-> classify(plain[k])]]
IsAdapter(item) == item.classification # <<>> /\ item.classification[1].role # WINCE_USB_SYNC
IsSync(item) == item.classification # <<>> /\ item.classification[1].role = WINCE_USB_SYNC

score(role, driver, writable, pinned) ==
    (IF role = DOCK_BRIDGE THEN 400 ELSE 200) + (IF driver \in Apple THEN 100 ELSE 0)
    + (IF writable THEN 50 ELSE -500) + (IF pinned THEN 10000 ELSE 0)
rank_candidates(devices, pinned) ==
    LET adapters == SelectSeq(classify_devices(devices), IsAdapter)
        port(item, node) ==
            LET role == item.classification[1].role
            IN [path |-> node.path, driver |-> node.driver, writable |-> node.writable, role |-> role,
                score |-> score(role, node.driver, node.writable, node.path = pinned)]
        ports(item) == [k \in DOMAIN item.device.serial_nodes |-> port(item, item.device.serial_nodes[k])]
        found == FlattenSeq([k \in DOMAIN adapters |-> ports(adapters[k])])
    IN SortSeq(found, LAMBDA a, b : a.score > b.score \/ (a.score = b.score /\ a.path < b.path))
recommend_serial_path(devices, pinned) ==
    LET ranked == rank_candidates(devices, pinned) IN IF ranked = <<>> THEN NoPath ELSE ranked[1].path

Finding(level, about) == <<[level |-> level, about |-> about]>>
IfThen(condition, findings) == IF condition THEN findings ELSE <<>>
dock_findings(handheld, ranked) ==
    LET bridges == SelectSeq(ranked, LAMBDA c : c.role = DOCK_BRIDGE)
    IN CASE architecture(handheld) = "SH3" ->
              (IF bridges # <<>> THEN Finding("ok", <<"through the dock", bridges[1].path>>)
               ELSE Finding("info", <<"the dock's jack is inert", NoPath>>))
         [] architecture(handheld) = "ARM" -> Finding("info", <<"can enumerate on the dock's jack", NoPath>>)
         [] OTHER -> <<>>
sync_device_findings(items, handheld) ==
    LET syncs == SelectSeq(items, IsSync)
        about(item) == Finding("info", <<"USB Sync device", item.device.id>>)
                       \o IfThen(architecture(handheld) = "SH3", Finding("warn", <<"not this handheld", item.device.id>>))
    IN FlattenSeq([k \in DOMAIN syncs |-> about(syncs[k])])
adapter_findings(items) ==
    LET adapters == SelectSeq(items, IsAdapter)
        closed(nodes) == SelectSeq(nodes, LAMBDA n : ~n.writable)
        about(id, nodes) ==
            IF nodes = <<>> THEN Finding("error", <<"no serial node", id>>)
            ELSE IfThen(Len(nodes) > 1, Finding("info", <<"several nodes", id>>))
                 \o FlattenSeq([k \in DOMAIN closed(nodes) |-> Finding("warn", <<"root-only", closed(nodes)[k].path>>)])
    IN FlattenSeq([k \in DOMAIN adapters |-> about(adapters[k].device.id, adapters[k].device.serial_nodes)])

diagnose(devices, pinned, handheld) ==
    LET items == classify_devices(devices)
        ranked == rank_candidates(devices, pinned)
        paths == {ranked[k].path : k \in DOMAIN ranked}
    IN [devices |-> items, candidates |-> ranked, pinned |-> pinned, handheld |-> handheld,
        recommended |-> recommend_serial_path(devices, pinned),
        findings |->
            IfThen(pinned # NoPath /\ pinned \notin paths, Finding("warn", <<"pinned port not present", pinned>>))
            \o IfThen(ranked = <<>> /\ SelectSeq(items, IsSync) = <<>>, Finding("error", <<"no adapter", NoPath>>))
            \o sync_device_findings(items, handheld) \o dock_findings(handheld, ranked) \o adapter_findings(items)
            \o IfThen(ranked # <<>>, Finding("ok", <<IF ranked[1].path = pinned THEN "pinned" ELSE "best available",
                                                    ranked[1].path>>))]
worst_level(d) ==
    LET present == SelectSeq(<<"error", "warn", "info">>, LAMBDA l : \E k \in DOMAIN d.findings : d.findings[k].level = l)
    IN IF present = <<>> THEN "ok" ELSE present[1]

------------------------------------------------------------------------------
(* usb_cli.py; the pin file holds a path, nothing, or a line that is no     *)
(* path (Garbage).                                                          *)
Garbage == -1
read_pin(pin_file) == IF pin_file = Garbage THEN NoPath ELSE pin_file
format_status(d) ==      \* adapter, port and its tags, and the real problems
    LET known == SelectSeq(d.devices, LAMBDA item : item.classification # <<>>)
        chosen == SelectSeq(d.candidates, LAMBDA c : c.path = d.recommended)
    IN [adapter |-> IF known = <<>> THEN None ELSE known[1].device.id, port |-> d.recommended,
        tags |-> IF d.recommended = NoPath THEN {}
                 ELSE (IF d.pinned = d.recommended THEN {"pinned"} ELSE {})
                      \cup (IF chosen[1].writable THEN {} ELSE {"root-only"}),
        problems |-> SelectSeq(d.findings, LAMBDA f : f.level \in {"warn", "error"})]
exit_status(action, d) ==
    IF action = "pick" THEN (IF d.recommended = NoPath THEN 1 ELSE 0) ELSE IF worst_level(d) = "error" THEN 1 ELSE 0
(* `usb pin` writes the pin only for a path that is a character device now. *)
cmd_pin(path, attached, pin_file) == IF path # NoPath /\ path \in attached THEN path ELSE pin_file

------------------------------------------------------------------------------
(* The programs that open a port: each its own choice, NoPath when it gives *)
(* up.                                                                      *)
FirstOf(nodes) == IF nodes = {} THEN NoPath ELSE Min(nodes)
IfAttached(path, attached) == IF path \in attached THEN path ELSE NoPath

(* bin/jornada-ppp: the pin file's first line if there is one, else the     *)
(* doctor's pick, else the first usbserial node, if that is attached.       *)
jornada_ppp(pin_file, picked, attached, usbserial) ==
    IfAttached(IF pin_file # NoPath THEN pin_file
               ELSE IF picked # NoPath THEN picked ELSE FirstOf(usbserial \cap attached), attached)

(* bin/jornada-setup-passwordless writes the pin of that day, or none, into *)
(* the helper's own configuration; helper is <<>> while it is not installed. *)
setup_passwordless(pin_file) == <<read_pin(pin_file)>>
(* bin/jornada-connect, the helper: its configured port, else the first     *)
(* usbserial node.  It reads neither the pin nor the doctor's pick.         *)
jornada_connect(helper, attached, usbserial) ==
    IF helper = <<>> THEN NoPath
    ELSE IfAttached(IF helper[1] # NoPath THEN helper[1] ELSE FirstOf(usbserial \cap attached), attached)

(* The app: a pin whose node exists, else the doctor's pick without the pin, *)
(* else the first usbserial node.                                           *)
serialDevice(devices, pinned, attached, usbserial) ==
    IF pinned # NoPath /\ pinned \in attached THEN pinned
    ELSE IF recommend_serial_path(devices, NoPath) # NoPath THEN recommend_serial_path(devices, NoPath)
    ELSE FirstOf(usbserial \cap attached)
(* Connect: nothing without such a device; the helper if it is there and    *)
(* starts, whatever that device is; else run-ppp.sh with the device.        *)
startLink(device, helped) == IF device # NoPath /\ helped # NoPath THEN helped ELSE device
==============================================================================
