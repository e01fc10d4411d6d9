-------------------------------- MODULE Upgrade --------------------------------
(* Firmware upgrade: the RSU commands START, PACK and STOP of rsu_parse.c, the   *)
(* flash they write (stmflash.c, iap.c), the configuration record that shares    *)
(* the flash, the boot decision of main.c, and a host that drives the upgrade.   *)
(* Flash is erased by the sector and programmed by the word, so power may fail   *)
(* in the middle; STMFLASH_Write may give up, and tells nobody; trafficlight_task, *)
(* of a higher priority than the task that executes the commands, may at any     *)
(* moment restart the device for want of heartbeats, and writes the configuration *)
(* before it does.                                                               *)
EXTENDS Integers

CONSTANTS
    IMAGE,      \* packs of an image; pack b fills block b of the application area
    SECTOR6,    \* how many blocks lie in flash sector 6; the rest is in sector 7
    Image,      \* the firmware images a host may send
    LegalImage, \* those whose reset vector points into flash
    IP,         \* the network settings SETIP may store
    Rest,       \* what a pack's length may leave over, divided by the word of 4 bytes
    Fault,      \* what may go wrong: sets of AllFaults, of which one applies
    NONE        \* no message

(* power: it fails; restart: ten minutes without a heartbeat; loss: a request or  *)
(* a reply is lost; corrupt: a pack arrives damaged; retry: the host sends again  *)
(* before it has the answer; flash: an erase or the programming of a word fails;  *)
(* odd: packs have a length that is not a multiple of 4; stray: PACK and STOP are  *)
(* sent outside an upgrade.                                                      *)
AllFaults == {"power", "restart", "loss", "corrupt", "retry", "flash", "odd", "stray"}
erased == "erased"          \* settings never written: 0xFFFFFFFF
blank == <<"blank", 0>>     \* a block whose words are all 0xFFFFFFFF
torn == <<"torn", 0>>       \* a block of which only the first words are programmed
FFFF == 65535

ASSUME UpgradeAssumption ==
    /\ IMAGE \in Nat \ {0} /\ SECTOR6 \in Nat
    /\ LegalImage \subseteq Image
    /\ "blank" \notin Image /\ "torn" \notin Image /\ erased \notin IP
    /\ Fault \subseteq SUBSET AllFaults
    /\ Rest \subseteq 0..3 /\ 0 \in Rest

Block == 1..IMAGE
Content == (Image \X Block) \cup {blank, torn}     \* <<m, n>>: pack n of image m
Config == [ip: IP \cup {erased}, update_flag: {0, 1, FFFF}]
ErasedConfig == [ip |-> erased, update_flag |-> FFFF]
ConfigOp == {"START", "STOP", "SETIP", "RESET"}

Request == [op: {"START", "STOP", "RESET"}]
           \cup [op: {"SETIP"}, ip: IP]
           \cup [op: {"PACK"}, img: Image, num: Block, rest: 0..3, intact: BOOLEAN]
Reply == [op: ConfigOp \cup {"PACK"}, result: {0, 1}]

ASSUME NoneAssumption == NONE \notin Request \cup Reply

VARIABLES
    (* flash *)
    app,            \* app[b]: block b of the application area
    cfg,            \* the configuration record at FLASH_SAVE_ADDR, in sector 7
    error,          \* an error flag stands in FLASH->SR: none is ever cleared
    (* RAM of the device *)
    mode,           \* "iap" or "app": which program runs
    pack_num,       \* the pack expected next
    pack_offset,    \* packs written so far
    skew,           \* pack_offset % 4, in bytes
    job,            \* the command being executed, or NONE
    step,           \* how far: "idle", "erase", "words", "last", "reply", "reset"
    result,         \* the result byte of its reply
    data,           \* the configuration to be written for it
    net,            \* the restart of trafficlight_task: "idle", "erase", ...
    netdata,        \* the configuration it read
    (* between the device and the host *)
    req,            \* the command on its way, or in tcp_server_recvbuf
    reply,          \* the reply in tcp_server_sendbuf
    (* the host *)
    phase,          \* "idle", "start", "packs", "stop"
    img,            \* the image it sends
    next,           \* the pack it has to send next
    asked,          \* it waits for an answer
    (* for the properties *)
    set,            \* the settings of the last SETIP
    harm,           \* what went wrong and nobody was told, a subset of Harm
    fault           \* what may go wrong here

flash == <<app, cfg, error>>
packs == <<pack_num, pack_offset, skew>>
restart == <<net, netdata>>
host == <<phase, img, next>>
vars == <<flash, mode, packs, job, step, result, data, restart, req, reply, host, asked,
          set, harm>>

(* unwritten: a pack was acknowledged that is not, or not all, in flash; kept:    *)
(* START was, and the record still marks the old image; stray: the host sent a    *)
(* PACK or a STOP outside an upgrade.                                            *)
Harm == {"unwritten", "kept", "stray"}

Steps == {"idle", "erase", "words", "last", "reply", "reset"}

TypeOK ==
    /\ app \in [Block -> Content]
    /\ cfg \in Config /\ error \in BOOLEAN
    /\ mode \in {"iap", "app"}
    /\ pack_num \in 0..IMAGE+1 /\ pack_offset \in 0..IMAGE
    /\ skew \in 0..3
    /\ job \in Request \cup {NONE}
    /\ step \in Steps /\ result \in {0, 1}
    /\ data \in Config
    /\ net \in {"idle", "erase", "words", "last", "reset"} /\ netdata \in Config
    /\ req \in Request \cup {NONE}
    /\ reply \in Reply \cup {NONE}
    /\ phase \in {"idle", "start", "packs", "stop"}
    /\ img \in Image /\ next \in 1..IMAGE+1
    /\ fault \in Fault
    /\ asked \in BOOLEAN /\ set \in IP \cup {erased}
    /\ harm \subseteq Harm

(* A new device: the IAP program in sectors 0 to 5, the rest of the flash empty. *)
Init ==
    /\ app = [b \in Block |-> blank]
    /\ cfg = ErasedConfig /\ error = FALSE
    /\ mode = "iap"
    /\ pack_num = 1 /\ pack_offset = 0 /\ skew = 0
    /\ job = NONE /\ step = "idle" /\ result = 0 /\ data = ErasedConfig
    /\ net = "idle" /\ netdata = ErasedConfig
    /\ req = NONE /\ reply = NONE
    /\ phase = "idle" /\ img \in Image /\ next = 1 /\ asked = FALSE
    /\ set = erased /\ harm = {}
    /\ fault \in Fault

-------------------------------------------------------------------------------
(* Flash: STMFLASH_Write erases the sector of a word that is not 0xFFFFFFFF.     *)
Sector(b) == IF b <= SECTOR6 THEN 6 ELSE 7

EraseSector(s) ==
    /\ app' = [b \in Block |-> IF Sector(b) = s THEN blank ELSE app[b]]
    /\ cfg' = IF s = 7 THEN ErasedConfig ELSE cfg

(* What it writes for the command: the record, or the block behind those written. *)
Target == pack_offset + 1

(* fault: the sector is erased whatever it holds *)
DirtyFault == TRUE

Dirty == IF job.op = "PACK" THEN app[Target] # blank ELSE cfg # ErasedConfig
TargetSector == IF job.op = "PACK" THEN Sector(Target) ELSE 7

Whole(m) == \A b \in Block : app[b] = <<m, b>>
SomeWhole == \E m \in Image : Whole(m)

(* main: the application runs if the flag says so and its stack pointer, the     *)
(* first word of the first block, is one.                                        *)
BootMode == IF cfg.update_flag = 1 /\ app[1] # blank THEN "app" ELSE "iap"

(* A reset: RAM and the flash controller start afresh, connections and what was   *)
(* in them are gone.                                                             *)
Boot ==
    /\ mode' = BootMode /\ error' = FALSE
    /\ pack_num' = 1 /\ pack_offset' = 0 /\ skew' = 0
    /\ job' = NONE /\ step' = "idle" /\ result' = 0 /\ data' = ErasedConfig
    /\ net' = "idle" /\ netdata' = ErasedConfig
    /\ req' = NONE /\ reply' = NONE /\ asked' = FALSE
    /\ UNCHANGED <<app, cfg, host, set, harm>>

-------------------------------------------------------------------------------
(* rsuParse in communication_task *)
Free == job = NONE /\ net = "idle"

(* fault: START leaves update_flag alone *)
ConfiguredKeepsFlag(r) ==
    CASE r.op = "STOP"  -> [cfg EXCEPT !.update_flag = 1]
      [] r.op = "SETIP" -> [cfg EXCEPT !.ip = r.ip]
      [] OTHER -> cfg

(* fault: START writes a fresh record *)
ConfiguredForgetsIp(r) ==
    CASE r.op = "START" -> [ErasedConfig EXCEPT !.update_flag = 0]
      [] r.op = "STOP"  -> [cfg EXCEPT !.update_flag = 1]
      [] r.op = "SETIP" -> [cfg EXCEPT !.ip = r.ip]
      [] r.op = "RESET" -> cfg

(* What a command makes of the configuration record it has read. *)
Configured(r) ==
    CASE r.op = "START" -> [cfg EXCEPT !.update_flag = 0]
      [] r.op = "STOP"  -> [cfg EXCEPT !.update_flag = 1]
      [] r.op = "SETIP" -> [cfg EXCEPT !.ip = r.ip]
      [] r.op = "RESET" -> cfg

TakeConfig ==
    /\ Free /\ req # NONE /\ req.op \in ConfigOp
    /\ job' = req /\ step' = "erase" /\ result' = 1
    /\ data' = Configured(req)
    /\ req' = NONE
    /\ pack_num' = IF req.op = "START" THEN 0 ELSE pack_num
    /\ IF req.op = "STOP" THEN pack_offset' = 0 /\ skew' = 0
       ELSE UNCHANGED <<pack_offset, skew>>
    /\ set' = IF req.op = "SETIP" THEN req.ip ELSE set
    /\ UNCHANGED <<flash, mode, restart, reply, host, asked, harm>>

(* fault: the number is compared after it has moved on *)
AcceptedLate(r) == r.intact /\ r.num = pack_num + 1

(* The result of the check of the first pack (l.292-304) is overwritten by that  *)
(* of the checksum and the pack's number (l.307-326).                            *)
Accepted(r) == r.intact /\ r.num = pack_num

(* fault: a pack that is refused is counted too *)
TakePackFault ==
    /\ Free /\ req # NONE /\ req.op = "PACK"
    /\ job' = req /\ pack_num' = pack_num + 1
    /\ IF Accepted(req)
       THEN step' = "erase" /\ result' = 1
       ELSE step' = "reply" /\ result' = 0
    /\ req' = NONE
    /\ UNCHANGED <<flash, mode, pack_offset, skew, data, restart, reply, host, asked,
                   set, harm>>

TakePack ==
    /\ Free /\ req # NONE /\ req.op = "PACK"
    /\ job' = req
    /\ IF Accepted(req)
       THEN step' = "erase" /\ result' = 1 /\ pack_num' = pack_num + 1
       ELSE step' = "reply" /\ result' = 0 /\ UNCHANGED pack_num
    /\ req' = NONE
    /\ UNCHANGED <<flash, mode, pack_offset, skew, data, restart, reply, host, asked,
                   set, harm>>

(* STMFLASH_Write for the command, in three steps that a fault may separate:     *)
(* the sector is erased, the words but the last are programmed, then the last,   *)
(* which in the configuration record holds update_flag. With an error flag in     *)
(* FLASH->SR the library neither erases nor programs.                            *)
At(s) == step = s /\ net = "idle"
Aligned == job.op = "PACK" => skew = 0

Erase ==
    /\ At("erase") /\ Aligned
    /\ IF Dirty THEN ~error /\ EraseSector(TargetSector) ELSE UNCHANGED <<app, cfg>>
    /\ step' = "words"
    /\ UNCHANGED <<error, mode, packs, job, result, data, restart, req, reply, host, asked,
                   set, harm>>

Words ==
    /\ At("words") /\ ~error
    /\ IF job.op = "PACK"
       THEN app' = [app EXCEPT ![Target] = torn] /\ UNCHANGED cfg
       ELSE cfg' = [cfg EXCEPT !.ip = data.ip] /\ UNCHANGED app
    /\ step' = "last"
    /\ UNCHANGED <<error, mode, packs, job, result, data, restart, req, reply, host, asked,
                   set, harm>>

Last ==
    /\ At("last") /\ ~error
    /\ IF job.op = "PACK"
       THEN /\ app' = [app EXCEPT ![Target] = <<job.img, job.num>>]
            /\ UNCHANGED cfg
       ELSE /\ cfg' = [cfg EXCEPT !.update_flag = data.update_flag]
            /\ UNCHANGED app
    /\ step' = "reply"
    /\ UNCHANGED <<error, mode, packs, job, result, data, restart, req, reply, host, asked,
                   set, harm>>

(* Or it returns early, which its callers do not see: they go on to their reply   *)
(* with the result they had.                                                     *)
Unseen ==
    CASE job.op = "PACK" -> {"unwritten"}
      [] job.op = "START" /\ step = "erase" /\ cfg.update_flag = 1 -> {"kept"}
      [] OTHER -> {}

ReturnEarly ==
    /\ step' = "reply" /\ harm' = harm \cup Unseen
    /\ UNCHANGED <<app, cfg, mode, packs, job, result, data, restart, req, reply, host,
                   asked, set>>

(* l.61: at an address that is not that of a word nothing is written. *)
Refuse ==
    /\ At("erase") /\ ~Aligned
    /\ ReturnEarly /\ UNCHANGED error

(* l.74 and 82-85: the erase or a word fails, now or because one has failed before. *)
Break ==
    /\ \/ At("erase") /\ Aligned /\ Dirty
       \/ At("words") \/ At("last")
    /\ error \/ "flash" \in fault
    /\ error' = TRUE
    /\ ReturnEarly

(* The reply goes to tcp_server_sendbuf. START, RESET and STOP go on to a reset,  *)
(* and only a pack that was accepted moves pack_offset.                          *)
MarkReply ==
    /\ At("reply")
    /\ reply' = [op |-> job.op, result |-> result]
    /\ IF job.op = "PACK" /\ result = 1
       THEN pack_offset' = pack_offset + 1 /\ skew' = (skew + job.rest) % 4
       ELSE UNCHANGED <<pack_offset, skew>>
    /\ IF job.op \in {"START", "STOP", "RESET"}
       THEN step' = "reset" /\ UNCHANGED job
       ELSE step' = "idle" /\ job' = NONE
    /\ UNCHANGED <<flash, mode, pack_num, result, data, restart, req, host, asked, set, harm>>

(* NVIC_SystemReset. START and RESET wait a second first, in which the server     *)
(* sends the reply; STOP does not wait.                                          *)
CommandReset ==
    /\ At("reset")
    /\ reply = NONE \/ job.op = "STOP"
    /\ Boot

-------------------------------------------------------------------------------
(* trafficlight_task after ten minutes without a heartbeat (main.c 147-155). It   *)
(* does not block, so the command task stands still until the reset.             *)
RestartRead ==
    /\ "restart" \in fault
    /\ net = "idle"
    /\ net' = "erase" /\ netdata' = cfg
    /\ UNCHANGED <<flash, mode, packs, job, step, result, data, req, reply, host, asked,
                   set, harm>>

RestartErase ==
    /\ net = "erase"
    /\ IF cfg # ErasedConfig THEN ~error /\ EraseSector(7) ELSE UNCHANGED <<app, cfg>>
    /\ net' = "words"
    /\ UNCHANGED <<error, mode, packs, job, step, result, data, netdata, req, reply, host,
                   asked, set, harm>>

RestartWords ==
    /\ net = "words" /\ ~error
    /\ cfg' = [cfg EXCEPT !.ip = netdata.ip]
    /\ net' = "last"
    /\ UNCHANGED <<app, error, mode, packs, job, step, result, data, netdata, req, reply,
                   host, asked, set, harm>>

RestartLast ==
    /\ net = "last" /\ ~error
    /\ cfg' = [cfg EXCEPT !.update_flag = netdata.update_flag]
    /\ net' = "reset"
    /\ UNCHANGED <<app, error, mode, packs, job, step, result, data, netdata, req, reply,
                   host, asked, set, harm>>

RestartBreak ==
    /\ (net = "erase" /\ cfg # ErasedConfig) \/ net \in {"words", "last"}
    /\ error \/ "flash" \in fault
    /\ error' = TRUE /\ net' = "reset"
    /\ UNCHANGED <<app, cfg, mode, packs, job, step, result, data, netdata, req, reply,
                   host, asked, set, harm>>

RestartReset == net = "reset" /\ Boot

PowerFails == "power" \in fault /\ Boot

(* An application that is not whole, or no longer, may do anything for a while, of *)
(* which the model has what the program does, and hang until the watchdog resets. *)
AppCrashes == mode = "app" /\ ~SomeWhole /\ Boot

-------------------------------------------------------------------------------
(* The host. It starts an upgrade, waits for the reply to START, sends the packs *)
(* in order, each again until it is accepted, and then STOP. It may give up at   *)
(* any time, and may send a request again when it got no answer. HostStrays is    *)
(* another host, or one that does not keep to this: the device executes PACK and  *)
(* STOP at any time, whichever program runs.                                     *)
Send(r) ==
    /\ req = NONE
    /\ ~asked \/ "retry" \in fault
    /\ req' = r /\ asked' = TRUE
    /\ UNCHANGED <<flash, mode, packs, job, step, result, data, restart, reply, set>>

HostStart(m) ==
    /\ phase \in {"idle", "start"}
    /\ Send([op |-> "START"])
    /\ phase' = "start" /\ img' = m /\ next' = 1 /\ UNCHANGED harm

Pack(m, n, r, intact) ==
    [op |-> "PACK", img |-> m, num |-> n, rest |-> r, intact |-> intact]

HostPack(intact) ==
    /\ phase = "packs" /\ next <= IMAGE
    /\ intact \/ "corrupt" \in fault
    /\ \E r \in Rest : /\ r = 0 \/ "odd" \in fault
                       /\ Send(Pack(img, next, r, intact))
    /\ UNCHANGED <<host, harm>>

HostStop ==
    /\ (phase = "packs" /\ next > IMAGE) \/ phase = "stop"
    /\ Send([op |-> "STOP"])
    /\ phase' = "stop" /\ UNCHANGED <<img, next, harm>>

HostStrays ==
    /\ "stray" \in fault
    /\ \/ \E m \in Image, n \in Block : Send(Pack(m, n, 0, TRUE))
       \/ Send([op |-> "STOP"])
    /\ harm' = harm \cup {"stray"}
    /\ UNCHANGED host

HostConfig ==
    /\ phase = "idle"
    /\ \/ \E a \in IP : Send([op |-> "SETIP", ip |-> a])
       \/ Send([op |-> "RESET"])
    /\ UNCHANGED <<host, harm>>

HostGivesUp ==
    /\ phase # "idle"
    /\ phase' = "idle"
    /\ UNCHANGED <<flash, mode, packs, job, step, result, data, restart, req, reply,
                   img, next, asked, set, harm>>

(* A reply is sent and received. The host takes it for the answer to what it     *)
(* sent last if it names the same command.                                       *)
Accept == [op |-> "PACK", result |-> 1]

HostHears ==
    /\ reply # NONE
    /\ reply' = NONE /\ asked' = FALSE
    /\ phase' = IF phase = "start" /\ reply.op = "START" THEN "packs" ELSE phase
    /\ next' = IF phase = "packs" /\ reply = Accept /\ next <= IMAGE
               THEN next + 1 ELSE next
    /\ UNCHANGED <<flash, mode, packs, job, step, result, data, restart, req, img, set, harm>>

LoseRequest ==
    /\ "loss" \in fault /\ req # NONE
    /\ req' = NONE /\ asked' = FALSE
    /\ UNCHANGED <<flash, mode, packs, job, step, result, data, restart, reply, host,
                   set, harm>>

LoseReply ==
    /\ "loss" \in fault /\ reply # NONE
    /\ reply' = NONE /\ asked' = FALSE
    /\ UNCHANGED <<flash, mode, packs, job, step, result, data, restart, req, host,
                   set, harm>>

-------------------------------------------------------------------------------
CommandTask ==
    \/ TakeConfig \/ TakePack
    \/ Erase \/ Words \/ Last \/ Refuse \/ Break
    \/ MarkReply \/ CommandReset

RestartTask ==
    \/ RestartRead \/ RestartErase \/ RestartWords \/ RestartLast \/ RestartBreak
    \/ RestartReset

Host ==
    \/ \E m \in Image : HostStart(m)
    \/ \E intact \in BOOLEAN : HostPack(intact)
    \/ HostStop \/ HostStrays \/ HostConfig \/ HostGivesUp \/ HostHears

Faults == PowerFails \/ AppCrashes \/ LoseRequest \/ LoseReply

Next == CommandTask \/ RestartTask \/ Host \/ Faults

Spec == Init /\ [][Next /\ UNCHANGED fault]_<<vars, fault>>

(* Device and host do not both stand still: a request that is there is executed,   *)
(* a reply heard, or the host goes on with what it began, unless it gives up, of   *)
(* which nothing is assumed. A pack sent again and again arrives intact in the end. *)
Goes == CommandTask \/ HostHears \/ HostStart(img) \/ HostStop

FairSpec == Spec /\ WF_vars(Goes) /\ SF_vars(HostPack(TRUE))

-------------------------------------------------------------------------------
(* As long as no pack was acknowledged that did not reach flash, START was not     *)
(* acknowledged in vain and no host strayed, the application only ever runs as a  *)
(* whole image of one version, whatever else interrupted its upgrade: for images  *)
(* that fit flash sector 6. With harm it may run in part (RunsWholeAlways).       *)
RunsWholeImage == mode = "app" /\ harm = {} => SomeWhole

(* Until then update_flag says 1 only over a whole image: at any instant the power *)
(* may fail and main decides by this flag.                                       *)
FlagMeansWhole == cfg.update_flag = 1 /\ harm = {} => SomeWhole

(* The host counts no more packs as accepted than the flash holds of its image,   *)
(* until one was acknowledged that did not reach flash, or harm let others in.    *)
AcceptedIsWritten ==
    phase \in {"packs", "stop"} /\ harm = {} => \A b \in 1..next-1 : app[b] = <<img, b>>

(* The program does not erase or program the application it runs from, not even   *)
(* after packs that did not reach flash, unless a host strays, or START could not  *)
(* erase the record, was acknowledged, and the application it was to replace is   *)
(* the one that receives the packs.                                              *)
RunningImageKept == [][mode = "app" /\ harm \subseteq {"unwritten"} => app' = app]_vars

(* Nothing goes wrong but that packs arrive damaged. *)
Calm == fault \subseteq {"corrupt"}

(* Without power failures and restarts in the middle of a write, the commands     *)
(* that rewrite the configuration record for another field keep its settings.    *)
SettingsKept == Calm /\ job = NONE => cfg.ip = set

(* An upgrade in which only packs are damaged ends in the new image running,      *)
(* unless the host gives up.                                                      *)
UpgradeEnds ==
    (Calm /\ phase # "idle") ~> (phase = "idle" \/ (mode = "app" /\ Whole(img)))

-------------------------------------------------------------------------------
(* working_upgrade replies with the result 1 whatever became of the write, and    *)
(* PACK and STOP are executed at any time: refuted with flash, odd or stray.       *)
RunsWholeAlways == mode = "app" => SomeWhole

(* The image is written from its first block on: no block is left out before one   *)
(* that is written. Refuted with odd and three packs: a second pack at an address   *)
(* that is not that of a word is left out, the third, where the lengths add up to   *)
(* words again, is written.                                                       *)
NoHole == \A b, c \in Block : b < c /\ app[b] = blank => app[c] = blank

(* rsu_parse.c:301 calls a first pack whose reset vector is not in flash illegal *)
(* data: it is not written.                                                      *)
IllegalNotWritten ==
    [][\A m \in Image \ LegalImage : app'[1] = <<m, 1>> => app[1] = <<m, 1>>]_vars

(* rsu_parse.c:227 marks the reply of STOP as data to be sent: no reset of a      *)
(* command drops its reply.                                                      *)
ReplyBeforeReset == [][CommandReset => reply = NONE]_vars
=============================================================================
