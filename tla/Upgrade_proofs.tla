---------------------------- MODULE Upgrade_proofs ----------------------------
(* For images, settings and faults of any kind, and images of any length that fit *)
(* flash sector 6: what holds of the flag, the packs and the program that runs as  *)
(* long as no harm is done. The invariant has three parts. Whatever goes wrong, the *)
(* device counts packs in step (Numbers). Unless START failed or a host strayed,    *)
(* packs are sent, received and written only by an IAP whose record is unmarked    *)
(* (Upgrading) and the host has counted no more packs than the device (Counted).   *)
(* And unless a pack was acknowledged in vain, the flash holds the packs counted,  *)
(* in order and no further (NoHole to Sent), so that STOP and all that follows it  *)
(* find the image whole (ImageOK).                                               *)
EXTENDS Upgrade, TLAPS

(* Images that fit flash sector 6, so that no erase for the record reaches them. *)
ImageFits == IMAGE <= SECTOR6

-------------------------------------------------------------------------------
Doing(op) == job # NONE /\ job.op = op
Asked(op) == req # NONE /\ req.op = op
Resetting == Doing("START") /\ step = "reset"
Writing == Doing("PACK") /\ result = 1

(* The flag says 1 neither in the record nor in what a restart will put back. *)
Unmarked == cfg.update_flag # 1 /\ (net # "idle" => netdata.update_flag # 1)

(* The IAP runs, or is about to. *)
Receiving == mode = "iap" \/ Resetting

(* The image runs, is marked to run, or is going to be. *)
Committed ==
    \/ ~Unmarked \/ mode = "app" \/ phase = "stop" \/ Asked("STOP")
    \/ job # NONE /\ job.op # "PACK" /\ data.update_flag = 1

(* How a command goes on. *)
StepOK ==
    /\ job = NONE <=> step = "idle"
    /\ Doing("PACK") => step # "reset"
    /\ Doing("PACK") /\ result = 0 => step = "reply"
    /\ job # NONE /\ job.op # "PACK" => result = 1
    /\ step = "reset" => job.op \in {"START", "STOP", "RESET"}
    /\ Doing("START") => data.update_flag = 0

(* The device numbers what it has written. *)
Numbers ==
    /\ Writing => pack_num = pack_offset + 2 /\ job.num = pack_offset + 1
    /\ ~Writing /\ ~Doing("START") /\ ~Doing("STOP") => pack_num = pack_offset + 1

(* What the host has sent. *)
RequestOK ==
    /\ phase = "start" => next = 1 /\ (req = NONE \/ req.op = "START")
    /\ phase = "stop" => req = NONE \/ req.op = "STOP"
    /\ phase = "packs" =>
          \/ req = NONE
          \/ req.op = "START" /\ Resetting
          \/ req.op = "PACK" /\ req.img = img /\ req.num <= next
               /\ (next > pack_offset + 1 /\ ~Resetting => req.num = next)

(* Packs are sent, received and written only by an IAP whose record is unmarked. *)
Upgrading ==
    /\ phase = "packs" \/ Asked("PACK") =>
          Unmarked /\ Receiving /\ (job = NONE \/ Doing("PACK") \/ Resetting)
    /\ Doing("PACK") => Unmarked /\ mode = "iap"
    /\ Doing("START") /\ step # "erase" => Unmarked
    /\ reply # NONE /\ reply.op = "START" => Resetting

Finished == Committed => ~Writing

(* The host has counted no more than the device, or counted before a reset. *)
Counted ==
    phase = "packs" =>
        /\ Doing("PACK") => job.img = img
        /\ Resetting => next = 1 /\ reply = NONE
        /\ ~Resetting /\ next <= pack_offset + 1 => (reply = Accept => next <= pack_offset)
        /\ ~Resetting /\ next > pack_offset + 1 =>
              pack_offset = 0 /\ ~Writing /\ reply # Accept

Orderly == RequestOK /\ Upgrading /\ Finished /\ Counted

ImageOK ==
    /\ Committed => SomeWhole
    /\ phase = "stop" => Whole(img)

(* The image is written from its first block on (NoHole), as far as the device has *)
(* counted,                                                                       *)
Filled == IF Writing /\ step \in {"last", "reply"} THEN pack_offset + 1 ELSE pack_offset

Written ==
    /\ \A b \in Block : b <= pack_offset => app[b] # blank
    /\ Writing /\ step = "reply" => app[job.num] = <<job.img, job.num>>

(* from its first erase on no further, *)
Ahead ==
    pack_offset > 0 \/ (Writing /\ step \in {"words", "last", "reply"})
        => \A b \in Block : b > Filled => app[b] = blank

(* and is the one the host sends, as far as either has counted. *)
Sent ==
    phase = "packs" /\ ~Resetting =>
        \A b \in Block : b <= pack_offset \/ b < next => app[b] = <<img, b>>

Built == ImageOK /\ NoHole /\ Written /\ Ahead /\ Sent

IInv ==
    /\ TypeOK /\ StepOK /\ Numbers
    /\ harm \subseteq {"unwritten"} => Orderly
    /\ harm = {} => Built

-------------------------------------------------------------------------------
(* Of the constants: packs can be counted, no image is mistaken for an empty      *)
(* block, no message for none.                                                    *)
LEMMA Constants ==
    /\ IMAGE \in Nat \ {0} /\ SECTOR6 \in Nat /\ "blank" \notin Image
    /\ NONE \notin Request /\ Accept # NONE
BY UpgradeAssumption, NoneAssumption DEF Accept, Reply

(* An action that leaves the blocks alone and commits to nothing keeps ImageOK.   *)
LEMMA ImageKept ==
    ASSUME ImageOK, app' = app, Committed' => Committed,
           phase' = "stop" => phase = "stop" /\ img' = img
    PROVE  ImageOK'
BY DEF ImageOK, SomeWhole, Whole

(* Nor does one that rewrites a block of an image that is not committed. *)
LEMMA WriteImage ==
    ASSUME ImageOK, Finished, Committed' => Committed,
           Writing \/ app' = app, phase' = phase, img' = img
    PROVE  ImageOK'
BY DEF ImageOK, Finished, Committed, SomeWhole, Whole

(* The invariant follows from its parts when no harm is done. *)
LEMMA Parts ==
    ASSUME IInv, harm' = harm, TypeOK', StepOK', Numbers',
           Orderly => Orderly', Orderly /\ Built => Built'
    PROVE  IInv'
BY DEF IInv

USE UpgradeAssumption, Constants
USE DEF ImageFits, Block, flash, packs, restart, host, vars, At, Free, Send,
        Doing, Asked, Resetting, Writing, Unmarked, Receiving, Filled

(* A pack that is written finds its place in the image, and so in sector 6. *)
LEMMA TargetFits ==
    ASSUME ImageFits, IInv, Writing
    PROVE  Target \in Block /\ TargetSector = 6 /\ Target = job.num
BY DEF IInv, TypeOK, Numbers, Request, Target, TargetSector, Sector

(* What an erase for the record leaves of an image that fits sector 6: all of it. *)
LEMMA RecordErase ==
    ASSUME ImageFits, IInv, EraseSector(7)
    PROVE  app' = app /\ cfg' = ErasedConfig
BY DEF IInv, TypeOK, EraseSector, Sector

(* The erase of STMFLASH_Write, for a block and for the record. *)
LEMMA EraseEffect ==
    ASSUME ImageFits, IInv, Erase
    PROVE  /\ job # NONE /\ step = "erase" /\ net = "idle" /\ step' = "words"
           /\ job.op = "PACK" =>
                 /\ Writing /\ cfg' = cfg
                 /\ IF app[Target] # blank THEN app' = [b \in Block |-> blank]
                    ELSE app' = app
           /\ job.op # "PACK" => app' = app /\ cfg' = ErasedConfig
<1>1. job # NONE /\ step = "erase" /\ net = "idle" /\ step' = "words"
    BY DEF Erase, IInv, StepOK
<1>2. CASE job.op = "PACK"
    <2>1. Writing
        BY <1>1, <1>2 DEF IInv, TypeOK, StepOK
    <2>2. Target \in Block /\ TargetSector = 6
        BY <2>1, TargetFits
    <2>3. CASE Dirty
        <3>1. EraseSector(6) /\ app[Target] # blank
            BY <1>2, <2>2, <2>3 DEF Erase, Dirty
        <3>2. cfg' = cfg /\ app' = [b \in Block |-> blank]
            BY <3>1 DEF EraseSector, Sector
        <3>3. QED
            BY <1>1, <1>2, <2>1, <3>1, <3>2
    <2>4. CASE ~Dirty
        BY <1>1, <1>2, <2>1, <2>4 DEF Erase, Dirty
    <2>5. QED
        BY <2>3, <2>4
<1>3. CASE job.op # "PACK"
    <2>1. CASE Dirty
        BY <1>1, <1>3, <2>1, RecordErase DEF Erase, TargetSector
    <2>2. CASE ~Dirty
        BY <1>1, <1>3, <2>2 DEF Erase, Dirty
    <2>3. QED
        BY <2>1, <2>2
<1>4. QED
    BY <1>2, <1>3

-------------------------------------------------------------------------------
(* A configuration command is taken with the record it has read. *)
LEMMA TakeConfigKeeps ==
    ASSUME IInv, ImageFits, UNCHANGED fault, TakeConfig
    PROVE  IInv'
<1>1. TypeOK'
    BY SMTT(30) DEF IInv, TypeOK, TakeConfig, Configured, Config, Request, ConfigOp,
       Steps, StepOK
<1>2. StepOK' /\ Numbers'
    BY SMTT(30) DEF IInv, TypeOK, StepOK, Numbers, ConfigOp, TakeConfig,
           Configured
<1>3. ASSUME Orderly
      PROVE  Orderly' /\ (Committed' => Committed)
    <2> USE <1>3 DEF IInv, Orderly
    <2>1. RequestOK'
        BY SMTT(30) DEF RequestOK, StepOK, TypeOK, TakeConfig, Configured
    <2>2. Upgrading'
        BY SMTT(30) DEF Upgrading, StepOK, TypeOK, RequestOK, ConfigOp,
           TakeConfig, Configured
    <2>3. Committed' => Committed /\ ~Writing'
        BY SMTT(30) DEF Committed, Finished, StepOK, TypeOK, ConfigOp,
           TakeConfig, Configured
    <2>4. Counted'
        BY SMTT(30) DEF Counted, Accept, StepOK, TypeOK, RequestOK, ConfigOp,
           TakeConfig, Configured
    <2>5. QED
        BY <2>1, <2>2, <2>3, <2>4 DEF Finished
<1>4. ASSUME Orderly, Built
      PROVE  Built'
    <2> USE <1>4 DEF IInv, Built
    <2>1. app' = app /\ (phase' = "stop" => phase = "stop" /\ img' = img)
        BY DEF TakeConfig, Configured
    <2>2. ImageOK'
        BY <1>3, <1>4, <2>1, ImageKept
    <2>3. NoHole' /\ Written'
        BY SMTT(30) DEF NoHole, Written, TypeOK, StepOK, ConfigOp, TakeConfig,
           Configured
    <2>4. Ahead'
        BY SMTT(30) DEF Ahead, TypeOK, StepOK, ConfigOp, TakeConfig, Configured
    <2>5. Sent'
        BY SMTT(30) DEF Sent, TypeOK, StepOK, RequestOK, Upgrading, ConfigOp,
           TakeConfig, Configured
    <2>6. QED
        BY <2>2, <2>3, <2>4, <2>5
<1>5. QED
    BY <1>1, <1>2, <1>3, <1>4, Parts DEF TakeConfig, Configured

(* A pack is taken and compared with the number expected. *)
LEMMA TakePackKeeps ==
    ASSUME IInv, ImageFits, UNCHANGED fault, TakePack
    PROVE  IInv'
<1>1. TypeOK'
    <2>1. /\ UNCHANGED <<flash, mode, pack_offset, skew, data, restart, reply, host, asked>>
          /\ UNCHANGED <<set, harm>>
        BY DEF TakePack
    <2>2. /\ job' \in Request /\ req' = NONE
          /\ step' \in Steps /\ result' \in {0, 1}
        BY DEF IInv, TakePack, TypeOK, Steps
    <2>3. pack_num' \in 0..IMAGE+1
        BY SMTT(30) DEF IInv, TakePack, Accepted, TypeOK, Numbers, StepOK, Request
    <2>4. QED
        BY <2>1, <2>2, <2>3, SMTT(30) DEF IInv, TypeOK
<1>2. StepOK' /\ Numbers'
    BY SMTT(30) DEF IInv, TypeOK, StepOK, Numbers, TakePack, Accepted
<1>3. ASSUME Orderly
      PROVE  Orderly' /\ (Committed' => Committed)
    <2> USE <1>3 DEF IInv, Orderly
    <2>1. RequestOK'
        BY SMTT(30) DEF RequestOK, StepOK, TypeOK, TakePack, Accepted
    <2>2. Upgrading'
        BY SMTT(30) DEF Upgrading, StepOK, TypeOK, TakePack, Accepted
    <2>3. Committed' => Committed /\ ~Writing'
        BY SMTT(30) DEF Committed, Finished, StepOK, TypeOK, RequestOK,
           Upgrading, TakePack, Accepted
    <2>4. Counted'
        BY SMTT(30) DEF Counted, Accept, StepOK, TypeOK, Numbers, RequestOK,
           TakePack, Accepted
    <2>5. QED
        BY <2>1, <2>2, <2>3, <2>4 DEF Finished
<1>4. ASSUME Orderly, Built
      PROVE  Built'
    <2> USE <1>4 DEF IInv, Built
    <2>1. app' = app /\ (phase' = "stop" => phase = "stop" /\ img' = img)
        BY DEF TakePack, Accepted
    <2>2. ImageOK'
        BY <1>3, <1>4, <2>1, ImageKept
    <2>3. NoHole' /\ Written'
        BY SMTT(30) DEF NoHole, Written, TypeOK, StepOK, TakePack, Accepted
    <2>4. Ahead'
        BY SMTT(30) DEF Ahead, TypeOK, StepOK, TakePack, Accepted
    <2>5. Sent'
        BY SMTT(30) DEF Sent, TypeOK, StepOK, TakePack, Accepted
    <2>6. QED
        BY <2>2, <2>3, <2>4, <2>5
<1>5. QED
    BY <1>1, <1>2, <1>3, <1>4, Parts DEF TakePack, Accepted

(* The erase before a block leaves the image uncommitted; that before the record
   reaches no block of an image that fits sector 6. *)
LEMMA EraseKeeps ==
    ASSUME IInv, ImageFits, UNCHANGED fault, Erase
    PROVE  IInv'
<1>0. UNCHANGED <<error, mode, packs, job, result, data, restart, req, reply, host, asked,
                  set, harm>>
    BY DEF Erase
<1>1. TypeOK'
    <2>1. app' \in [Block -> Content] /\ cfg' \in Config
        BY EraseEffect DEF IInv, TypeOK, Content, Config, ErasedConfig, FFFF
    <2>2. QED
        BY <1>0, <2>1, EraseEffect, SMTT(30) DEF IInv, TypeOK, Steps
<1>2. StepOK' /\ Numbers'
    BY <1>0, EraseEffect DEF IInv, StepOK, Numbers
<1>3. ASSUME Orderly
      PROVE  Orderly' /\ (Committed' => Committed)
    <2> USE <1>3 DEF IInv, Orderly
    <2>1. RequestOK'
        BY <1>0, EraseEffect DEF RequestOK
    <2>2. Upgrading'
        BY <1>0, EraseEffect DEF Upgrading, ErasedConfig, FFFF
    <2>3. Committed' => Committed /\ ~Writing'
        BY <1>0, EraseEffect DEF Committed, Finished, ErasedConfig, FFFF
    <2>4. Counted'
        BY <1>0, EraseEffect DEF Counted
    <2>5. QED
        BY <2>1, <2>2, <2>3, <2>4 DEF Finished
<1>4. ASSUME Orderly, Built
      PROVE  Built'
    <2> USE <1>4 DEF IInv, Built
    <2>1. ImageOK'
        BY <1>0, <1>3, <1>4, EraseEffect, WriteImage DEF Orderly
    <2>2. NoHole'
        BY <1>0, <1>4, EraseEffect DEF NoHole
    <2>3. Written'
        BY <1>0, <1>4, EraseEffect, TargetFits, SMTT(30)
           DEF Written, NoHole, Ahead, Target, TypeOK
    <2>4. Ahead'
        BY <1>0, <1>4, EraseEffect, TargetFits, SMTT(30) DEF Ahead, NoHole, Target, TypeOK
    <2>5. Sent'
        BY <1>0, <1>4, EraseEffect, TargetFits, SMTT(30)
           DEF Sent, Ahead, Orderly, Counted, Target, TypeOK
    <2>6. QED
        BY <2>1, <2>2, <2>3, <2>4, <2>5
<1>5. QED
    BY <1>0, <1>1, <1>2, <1>3, <1>4, Parts

(* The words of a block are those of the pack the image lacks. *)
LEMMA WordsKeeps ==
    ASSUME IInv, ImageFits, UNCHANGED fault, Words
    PROVE  IInv'
<1>0. /\ UNCHANGED <<error, mode, packs, job, result, data, restart, req, reply, host, asked>>
      /\ UNCHANGED <<set, harm>>
      /\ job # NONE /\ net = "idle" /\ step = "words" /\ step' = "last"
      /\ job.op = "PACK" => /\ Writing /\ cfg' = cfg
                             /\ app' = [app EXCEPT ![job.num] = torn]
                             /\ job.num \in Block /\ job.num = pack_offset + 1
      /\ job.op # "PACK" => app' = app /\ cfg' = [cfg EXCEPT !.ip = data.ip]
    BY TargetFits, SMTT(30) DEF IInv, TypeOK, StepOK, Target, Words
<1>1. TypeOK'
    <2>1. job # NONE => job \in Request
        BY DEF IInv, TypeOK
    <2>2. job.op = "PACK" => torn \in Content
        BY <1>0, <2>1 DEF Content, Request, torn
    <2>3. app' \in [Block -> Content]
        BY <1>0, <2>2, SMTT(30) DEF IInv, TypeOK
    <2>4. cfg' \in Config
        BY <1>0, SMTT(30) DEF IInv, TypeOK, Config
    <2>5. QED
        BY <1>0, <2>3, <2>4, SMTT(30) DEF IInv, TypeOK, Steps
<1>2. StepOK' /\ Numbers'
    BY <1>0 DEF IInv, StepOK, Numbers
<1>3. ASSUME Orderly
      PROVE  Orderly' /\ (Committed' => Committed)
    <2> USE <1>3 DEF IInv, Orderly
    <2>1. RequestOK'
        BY <1>0 DEF RequestOK
    <2>2. Upgrading'
        BY <1>0, SMTT(30) DEF Upgrading, TypeOK, StepOK, Config
    <2>3. Committed' => Committed /\ ~Writing'
        BY <1>0, SMTT(30) DEF Committed, Finished, TypeOK, StepOK, Config
    <2>4. Counted'
        BY <1>0 DEF Counted
    <2>5. QED
        BY <2>1, <2>2, <2>3, <2>4 DEF Finished
<1>4. ASSUME Orderly, Built
      PROVE  Built'
    <2> USE <1>4 DEF IInv, Built
    <2>1. ImageOK'
        BY <1>0, <1>3, <1>4, WriteImage DEF Orderly
    <2>2. CASE job.op # "PACK"
        BY <1>0, <2>1, <2>2 DEF NoHole, Written, Ahead, Sent
    <2>3. CASE job.op = "PACK"
        <3>1. job.img \in Image
            BY <1>0, <2>3 DEF TypeOK, Request
        <3>2. /\ app'[job.num] = torn /\ app'[job.num] # blank
              /\ \A b \in Block \ {job.num} : app'[b] = app[b]
            BY <1>0, <2>3, <3>1 DEF TypeOK, blank, torn
        <3>3. \A b \in Block : b < job.num => app[b] # blank
            BY <1>0, <2>3 DEF Written, TypeOK
        <3>4. NoHole
            OBVIOUS
        <3>5. NoHole'
            BY <1>0, <2>3, <3>2, <3>3, <3>4 DEF NoHole
        <3>6. Written'
            BY <1>0, <2>3, <3>2, <3>3 DEF Written
        <3>7. Ahead'
            BY <1>0, <2>3, <3>2, SMTT(30) DEF Ahead, TypeOK
        <3>8. Sent'
            BY <1>0, <2>3, <3>2, SMTT(30) DEF Sent, Orderly, Counted, TypeOK
        <3>9. QED
            BY <2>1, <3>5, <3>6, <3>7, <3>8
    <2>4. QED
        BY <2>2, <2>3
<1>5. QED
    BY <1>0, <1>1, <1>2, <1>3, <1>4, Parts

(* With the last word the block is whole; with that of the record the flag counts. *)
LEMMA LastKeeps ==
    ASSUME IInv, ImageFits, UNCHANGED fault, Last
    PROVE  IInv'
<1>0. /\ UNCHANGED <<error, mode, packs, job, result, data, restart, req, reply, host, asked>>
      /\ UNCHANGED <<set, harm>>
      /\ job # NONE /\ net = "idle" /\ step = "last" /\ step' = "reply"
      /\ job.op = "PACK" => /\ Writing /\ cfg' = cfg
                             /\ app' = [app EXCEPT ![job.num] = <<job.img, job.num>>]
                             /\ job.num \in Block /\ job.num = pack_offset + 1
      /\ job.op # "PACK" => app' = app /\ cfg' = [cfg EXCEPT !.update_flag = data.update_flag]
    BY TargetFits, SMTT(30) DEF IInv, TypeOK, StepOK, Target, Last
<1>1. TypeOK'
    <2>1. job # NONE => job \in Request
        BY DEF IInv, TypeOK
    <2>2. job.op = "PACK" => <<job.img, job.num>> \in Content
        BY <1>0, <2>1 DEF Content, Request, torn
    <2>3. app' \in [Block -> Content]
        BY <1>0, <2>2, SMTT(30) DEF IInv, TypeOK
    <2>4. cfg' \in Config
        BY <1>0, SMTT(30) DEF IInv, TypeOK, Config
    <2>5. QED
        BY <1>0, <2>3, <2>4, SMTT(30) DEF IInv, TypeOK, Steps
<1>2. StepOK' /\ Numbers'
    BY <1>0 DEF IInv, StepOK, Numbers
<1>3. ASSUME Orderly
      PROVE  Orderly' /\ (Committed' => Committed)
    <2> USE <1>3 DEF IInv, Orderly
    <2>1. RequestOK'
        BY <1>0 DEF RequestOK
    <2>2. Upgrading'
        BY <1>0, SMTT(30) DEF Upgrading, TypeOK, StepOK, Config
    <2>3. Committed' => Committed /\ ~Writing'
        BY <1>0, SMTT(30) DEF Committed, Finished, TypeOK, StepOK, Config
    <2>4. Counted'
        BY <1>0 DEF Counted
    <2>5. QED
        BY <2>1, <2>2, <2>3, <2>4 DEF Finished
<1>4. ASSUME Orderly, Built
      PROVE  Built'
    <2> USE <1>4 DEF IInv, Built
    <2>1. ImageOK'
        BY <1>0, <1>3, <1>4, WriteImage DEF Orderly
    <2>2. CASE job.op # "PACK"
        BY <1>0, <2>1, <2>2 DEF NoHole, Written, Ahead, Sent
    <2>3. CASE job.op = "PACK"
        <3>1. job.img \in Image
            BY <1>0, <2>3 DEF TypeOK, Request
        <3>2. /\ app'[job.num] = <<job.img, job.num>> /\ app'[job.num] # blank
              /\ \A b \in Block \ {job.num} : app'[b] = app[b]
            BY <1>0, <2>3, <3>1 DEF TypeOK, blank, torn
        <3>3. \A b \in Block : b < job.num => app[b] # blank
            BY <1>0, <2>3 DEF Written, TypeOK
        <3>4. NoHole
            OBVIOUS
        <3>5. NoHole'
            BY <1>0, <2>3, <3>2, <3>3, <3>4 DEF NoHole
        <3>6. Written'
            BY <1>0, <2>3, <3>2, <3>3 DEF Written
        <3>7. Ahead'
            BY <1>0, <2>3, <3>2, SMTT(30) DEF Ahead, TypeOK
        <3>8. Sent'
            BY <1>0, <2>3, <3>2, SMTT(30) DEF Sent, Orderly, Counted, TypeOK
        <3>9. QED
            BY <2>1, <3>5, <3>6, <3>7, <3>8
    <2>4. QED
        BY <2>2, <2>3
<1>5. QED
    BY <1>0, <1>1, <1>2, <1>3, <1>4, Parts

(* A write that gives up is acknowledged as one that does not: a pack then counts   *)
(* as written that is not, and START may leave the mark of the old image.          *)
LEMMA ReturnEarlyKeeps ==
    ASSUME IInv, ImageFits, UNCHANGED fault, Refuse \/ Break
    PROVE  IInv'
<1>0. /\ UNCHANGED <<app, cfg, mode, packs, job, result, data, restart, req, reply, host, asked>>
      /\ set' = set /\ error' \in BOOLEAN
      /\ job # NONE /\ net = "idle" /\ step \in {"erase", "words", "last"}
      /\ step' = "reply" /\ harm' = harm \cup Unseen
    BY DEF IInv, TypeOK, StepOK, ReturnEarly, Refuse, Break
<1>1. TypeOK'
    <2>1. harm' \subseteq Harm
        BY <1>0 DEF IInv, TypeOK, Unseen, Harm
    <2>2. QED
        BY <1>0, <2>1, SMTT(30) DEF IInv, TypeOK, Steps
<1>2. StepOK' /\ Numbers'
    BY <1>0, SMTT(30) DEF IInv, TypeOK, StepOK, Numbers
<1>3. ASSUME Orderly, "kept" \notin harm'
      PROVE  Orderly' /\ (Committed' => Committed)
    <2> USE <1>3 DEF IInv, Orderly
    <2>1. RequestOK'
        BY <1>0, <1>3 DEF RequestOK
    <2>2. Doing("START") /\ step = "erase" => cfg.update_flag # 1
        BY <1>0, <1>3 DEF Unseen
    <2>3. Upgrading'
        BY <1>0, <1>3, <2>2 DEF Upgrading
    <2>4. Committed' => Committed /\ ~Writing'
        BY <1>0, <1>3 DEF Committed, Finished
    <2>5. Counted'
        BY <1>0, <1>3 DEF Counted
    <2>6. QED
        BY <2>1, <2>3, <2>4, <2>5 DEF Finished
<1>4. ASSUME Orderly, Built, harm' = {}
      PROVE  Built'
    <2>1. job.op # "PACK"
        BY <1>0, <1>4 DEF Unseen
    <2>2. ImageOK'
        BY <1>0, <1>3, <1>4, ImageKept DEF Built
    <2>3. NoHole' /\ Written'
        BY <1>0, <1>4, <2>1 DEF Built, NoHole, Written
    <2>4. Ahead' /\ Sent'
        BY <1>0, <1>4, <2>1 DEF Built, Ahead, Sent
    <2>5. QED
        BY <2>2, <2>3, <2>4 DEF Built
<1>5. QED
    BY <1>0, <1>1, <1>2, <1>3, <1>4 DEF IInv

(* The reply to a pack follows its block, so the host may count it. *)
LEMMA MarkReplyKeeps ==
    ASSUME IInv, ImageFits, UNCHANGED fault, MarkReply
    PROVE  IInv'
<1>1. TypeOK'
    <2>1. job # NONE => job \in Request
        BY DEF IInv, TypeOK
    <2>2. skew' \in 0..3
        BY <2>1, SMTT(30) DEF IInv, TypeOK, StepOK, MarkReply, Request
    <2>3. reply' \in Reply /\ step' \in Steps /\ job' \in Request \cup {NONE}
        BY <2>1, SMTT(30) DEF IInv, TypeOK, StepOK, MarkReply, Request, Reply, ConfigOp, Steps
    <2>4. pack_offset' \in 0..IMAGE
        BY <2>1, SMTT(30) DEF IInv, TypeOK, StepOK, Numbers, MarkReply, Request
    <2>5. UNCHANGED <<flash, mode, pack_num, result, data, restart, req, host, asked, set, harm>>
        BY DEF MarkReply
    <2>6. QED
        BY <2>2, <2>3, <2>4, <2>5, SMTT(30) DEF IInv, TypeOK
<1>2. StepOK' /\ Numbers'
    BY SMTT(30) DEF IInv, TypeOK, StepOK, Numbers, MarkReply
<1>3. ASSUME Orderly
      PROVE  Orderly' /\ (Committed' => Committed)
    <2> USE <1>3 DEF IInv, Orderly
    <2>1. RequestOK'
        BY SMTT(30) DEF RequestOK, StepOK, TypeOK, MarkReply
    <2>2. Upgrading'
        BY SMTT(30) DEF Upgrading, StepOK, TypeOK, MarkReply
    <2>3. Committed' => Committed /\ ~Writing'
        BY SMTT(30) DEF Committed, Finished, StepOK, TypeOK, MarkReply
    <2>4. Counted'
        BY SMTT(30) DEF Counted, Accept, StepOK, TypeOK, Numbers, Upgrading,
           MarkReply
    <2>5. QED
        BY <2>1, <2>2, <2>3, <2>4 DEF Finished
<1>4. ASSUME Orderly, Built
      PROVE  Built'
    <2> USE <1>4 DEF IInv, Built
    <2>1. app' = app /\ (phase' = "stop" => phase = "stop" /\ img' = img)
        BY DEF MarkReply
    <2>2. ImageOK'
        BY <1>3, <1>4, <2>1, ImageKept
    <2>3. NoHole' /\ Written'
        BY SMTT(30) DEF NoHole, Written, TypeOK, StepOK, Ahead, Numbers, blank,
           MarkReply
    <2>4. Ahead'
        BY SMTT(30) DEF Ahead, TypeOK, StepOK, Numbers, MarkReply
    <2>5. Sent'
        BY SMTT(30) DEF Sent, TypeOK, StepOK, Numbers, Written, Orderly, Counted,
           MarkReply
    <2>6. QED
        BY <2>2, <2>3, <2>4, <2>5
<1>5. QED
    BY <1>1, <1>2, <1>3, <1>4, Parts DEF MarkReply

(* A reset forgets the commands, not the flash: the image counts by its flag alone. *)
LEMMA BootKeeps ==
    ASSUME IInv, ImageFits, UNCHANGED fault, Boot
    PROVE  IInv'
<1>1. TypeOK'
    <2>1. /\ asked' \in BOOLEAN /\ error' \in BOOLEAN
          /\ UNCHANGED <<app, cfg, host, set, harm>>
        BY DEF Boot
    <2>2. mode' \in {"iap", "app"} /\ data' \in Config /\ netdata' \in Config
        BY DEF Boot, BootMode, Config, ErasedConfig, FFFF
    <2>3. /\ pack_num' = 1 /\ pack_offset' = 0 /\ skew' = 0 /\ job' = NONE /\ step' = "idle"
          /\ result' = 0 /\ net' = "idle" /\ req' = NONE /\ reply' = NONE
        BY DEF Boot
    <2>4. QED
        BY <2>1, <2>2, <2>3, SMTT(30) DEF IInv, TypeOK, Steps
<1>2. StepOK' /\ Numbers'
    BY SMTT(30) DEF IInv, TypeOK, StepOK, Numbers, Boot, BootMode
<1>3. ASSUME Orderly
      PROVE  Orderly' /\ (Committed' => Committed)
    <2> USE <1>3 DEF IInv, Orderly
    <2>1. RequestOK'
        BY SMTT(30) DEF RequestOK, StepOK, TypeOK, Boot, BootMode
    <2>2. Upgrading'
        BY SMTT(30) DEF Upgrading, StepOK, TypeOK, Boot, BootMode
    <2>3. Committed' => Committed /\ ~Writing'
        BY SMTT(30) DEF Committed, Finished, StepOK, TypeOK, Boot, BootMode
    <2>4. Counted'
        BY SMTT(30) DEF Counted, Accept, StepOK, TypeOK, Boot, BootMode
    <2>5. QED
        BY <2>1, <2>2, <2>3, <2>4 DEF Finished
<1>4. ASSUME Orderly, Built
      PROVE  Built'
    <2> USE <1>4 DEF IInv, Built
    <2>1. app' = app /\ (phase' = "stop" => phase = "stop" /\ img' = img)
        BY DEF Boot, BootMode
    <2>2. ImageOK'
        BY <1>3, <1>4, <2>1, ImageKept
    <2>3. NoHole' /\ Written'
        BY SMTT(30) DEF NoHole, Written, TypeOK, StepOK, Boot, BootMode
    <2>4. Ahead'
        BY SMTT(30) DEF Ahead, TypeOK, StepOK, Boot, BootMode
    <2>5. Sent'
        BY SMTT(30) DEF Sent, TypeOK, StepOK, Orderly, Counted, Boot, BootMode
    <2>6. QED
        BY <2>2, <2>3, <2>4, <2>5
<1>5. QED
    BY <1>1, <1>2, <1>3, <1>4, Parts DEF Boot, BootMode

(* trafficlight_task reads the record it is going to write, *)
LEMMA RestartReadKeeps ==
    ASSUME IInv, ImageFits, UNCHANGED fault, RestartRead
    PROVE  IInv'
<1>1. TypeOK'
    BY SMTT(30) DEF IInv, TypeOK, RestartRead
<1>2. StepOK' /\ Numbers'
    BY SMTT(30) DEF IInv, TypeOK, StepOK, Numbers, RestartRead
<1>3. ASSUME Orderly
      PROVE  Orderly' /\ (Committed' => Committed)
    <2> USE <1>3 DEF IInv, Orderly
    <2>1. RequestOK'
        BY SMTT(30) DEF RequestOK, StepOK, TypeOK, RestartRead
    <2>2. Upgrading'
        BY SMTT(30) DEF Upgrading, StepOK, TypeOK, RestartRead
    <2>3. Committed' => Committed /\ ~Writing'
        BY SMTT(30) DEF Committed, Finished, StepOK, TypeOK, RestartRead
    <2>4. Counted'
        BY SMTT(30) DEF Counted, Accept, StepOK, TypeOK, RestartRead
    <2>5. QED
        BY <2>1, <2>2, <2>3, <2>4 DEF Finished
<1>4. ASSUME Orderly, Built
      PROVE  Built'
    <2> USE <1>4 DEF IInv, Built
    <2>1. app' = app /\ (phase' = "stop" => phase = "stop" /\ img' = img)
        BY DEF RestartRead
    <2>2. ImageOK'
        BY <1>3, <1>4, <2>1, ImageKept
    <2>3. NoHole' /\ Written'
        BY SMTT(30) DEF NoHole, Written, TypeOK, StepOK, RestartRead
    <2>4. Ahead'
        BY SMTT(30) DEF Ahead, TypeOK, StepOK, RestartRead
    <2>5. Sent'
        BY SMTT(30) DEF Sent, TypeOK, StepOK, RestartRead
    <2>6. QED
        BY <2>2, <2>3, <2>4, <2>5
<1>5. QED
    BY <1>1, <1>2, <1>3, <1>4, Parts DEF RestartRead

(* erases it, *)
LEMMA RestartEraseKeeps ==
    ASSUME IInv, ImageFits, UNCHANGED fault, RestartErase
    PROVE  IInv'
<1>0. /\ UNCHANGED <<app, error, mode, packs, job, step, result, data, netdata, req, reply>>
      /\ UNCHANGED <<host, asked, set, harm>>
      /\ net = "erase" /\ net' = "words" /\ cfg' = ErasedConfig
    BY RecordErase DEF RestartErase
<1>1. TypeOK'
    BY <1>0, SMTT(30) DEF IInv, TypeOK, ErasedConfig, Config, FFFF
<1>2. StepOK' /\ Numbers'
    BY <1>0 DEF IInv, StepOK, Numbers
<1>3. ASSUME Orderly
      PROVE  Orderly' /\ (Committed' => Committed)
    <2>1. RequestOK' /\ Counted'
        BY <1>0, <1>3 DEF Orderly, RequestOK, Counted
    <2>2. Upgrading'
        BY <1>0, <1>3 DEF Orderly, Upgrading, ErasedConfig, FFFF
    <2>3. Committed' => Committed /\ ~Writing'
        BY <1>0, <1>3 DEF Orderly, Committed, Finished, ErasedConfig, FFFF
    <2>4. QED
        BY <2>1, <2>2, <2>3 DEF Orderly, Finished
<1>4. ASSUME Orderly, Built
      PROVE  Built'
    <2>1. ImageOK'
        BY <1>0, <1>3, <1>4, ImageKept DEF Built
    <2>2. NoHole' /\ Written' /\ Ahead' /\ Sent'
        BY <1>0, <1>4 DEF Built, NoHole, Written, Ahead, Sent
    <2>3. QED
        BY <2>1, <2>2 DEF Built
<1>5. QED
    BY <1>0, <1>1, <1>2, <1>3, <1>4, Parts

(* writes its words *)
LEMMA RestartWordsKeeps ==
    ASSUME IInv, ImageFits, UNCHANGED fault, RestartWords
    PROVE  IInv'
<1>1. TypeOK'
    BY SMTT(30) DEF IInv, TypeOK, RestartWords, Config
<1>2. StepOK' /\ Numbers'
    BY SMTT(30) DEF IInv, TypeOK, StepOK, Numbers, RestartWords
<1>3. ASSUME Orderly
      PROVE  Orderly' /\ (Committed' => Committed)
    <2> USE <1>3 DEF IInv, Orderly
    <2>1. RequestOK'
        BY SMTT(30) DEF RequestOK, StepOK, TypeOK, RestartWords
    <2>2. Upgrading'
        BY SMTT(30) DEF Upgrading, StepOK, TypeOK, RestartWords
    <2>3. Committed' => Committed /\ ~Writing'
        BY SMTT(30) DEF Committed, Finished, StepOK, TypeOK, RestartWords
    <2>4. Counted'
        BY SMTT(30) DEF Counted, Accept, StepOK, TypeOK, RestartWords
    <2>5. QED
        BY <2>1, <2>2, <2>3, <2>4 DEF Finished
<1>4. ASSUME Orderly, Built
      PROVE  Built'
    <2> USE <1>4 DEF IInv, Built
    <2>1. app' = app /\ (phase' = "stop" => phase = "stop" /\ img' = img)
        BY DEF RestartWords
    <2>2. ImageOK'
        BY <1>3, <1>4, <2>1, ImageKept
    <2>3. NoHole' /\ Written'
        BY SMTT(30) DEF NoHole, Written, TypeOK, StepOK, RestartWords
    <2>4. Ahead'
        BY SMTT(30) DEF Ahead, TypeOK, StepOK, RestartWords
    <2>5. Sent'
        BY SMTT(30) DEF Sent, TypeOK, StepOK, RestartWords
    <2>6. QED
        BY <2>2, <2>3, <2>4, <2>5
<1>5. QED
    BY <1>1, <1>2, <1>3, <1>4, Parts DEF RestartWords

(* and the flag it has read: a flag of 1 was over a whole image then and still is. *)
LEMMA RestartLastKeeps ==
    ASSUME IInv, ImageFits, UNCHANGED fault, RestartLast
    PROVE  IInv'
<1>1. TypeOK'
    BY SMTT(30) DEF IInv, TypeOK, RestartLast, Config
<1>2. StepOK' /\ Numbers'
    BY SMTT(30) DEF IInv, TypeOK, StepOK, Numbers, RestartLast
<1>3. ASSUME Orderly
      PROVE  Orderly' /\ (Committed' => Committed)
    <2> USE <1>3 DEF IInv, Orderly
    <2>1. RequestOK'
        BY SMTT(30) DEF RequestOK, StepOK, TypeOK, RestartLast
    <2>2. Upgrading'
        BY SMTT(30) DEF Upgrading, StepOK, TypeOK, Config, RestartLast
    <2>3. Committed' => Committed /\ ~Writing'
        BY SMTT(30) DEF Committed, Finished, StepOK, TypeOK, Config, RestartLast
    <2>4. Counted'
        BY SMTT(30) DEF Counted, Accept, StepOK, TypeOK, RestartLast
    <2>5. QED
        BY <2>1, <2>2, <2>3, <2>4 DEF Finished
<1>4. ASSUME Orderly, Built
      PROVE  Built'
    <2> USE <1>4 DEF IInv, Built
    <2>1. app' = app /\ (phase' = "stop" => phase = "stop" /\ img' = img)
        BY DEF RestartLast
    <2>2. ImageOK'
        BY <1>3, <1>4, <2>1, ImageKept
    <2>3. NoHole' /\ Written'
        BY SMTT(30) DEF NoHole, Written, TypeOK, StepOK, RestartLast
    <2>4. Ahead'
        BY SMTT(30) DEF Ahead, TypeOK, StepOK, RestartLast
    <2>5. Sent'
        BY SMTT(30) DEF Sent, TypeOK, StepOK, RestartLast
    <2>6. QED
        BY <2>2, <2>3, <2>4, <2>5
<1>5. QED
    BY <1>1, <1>2, <1>3, <1>4, Parts DEF RestartLast

(* or gives up. *)
LEMMA RestartBreakKeeps ==
    ASSUME IInv, ImageFits, UNCHANGED fault, RestartBreak
    PROVE  IInv'
<1>1. TypeOK'
    BY SMTT(30) DEF IInv, TypeOK, RestartBreak
<1>2. StepOK' /\ Numbers'
    BY SMTT(30) DEF IInv, TypeOK, StepOK, Numbers, RestartBreak
<1>3. ASSUME Orderly
      PROVE  Orderly' /\ (Committed' => Committed)
    <2> USE <1>3 DEF IInv, Orderly
    <2>1. RequestOK'
        BY SMTT(30) DEF RequestOK, StepOK, TypeOK, RestartBreak
    <2>2. Upgrading'
        BY SMTT(30) DEF Upgrading, StepOK, TypeOK, RestartBreak
    <2>3. Committed' => Committed /\ ~Writing'
        BY SMTT(30) DEF Committed, Finished, StepOK, TypeOK, RestartBreak
    <2>4. Counted'
        BY SMTT(30) DEF Counted, Accept, StepOK, TypeOK, RestartBreak
    <2>5. QED
        BY <2>1, <2>2, <2>3, <2>4 DEF Finished
<1>4. ASSUME Orderly, Built
      PROVE  Built'
    <2> USE <1>4 DEF IInv, Built
    <2>1. app' = app /\ (phase' = "stop" => phase = "stop" /\ img' = img)
        BY DEF RestartBreak
    <2>2. ImageOK'
        BY <1>3, <1>4, <2>1, ImageKept
    <2>3. NoHole' /\ Written'
        BY SMTT(30) DEF NoHole, Written, TypeOK, StepOK, RestartBreak
    <2>4. Ahead'
        BY SMTT(30) DEF Ahead, TypeOK, StepOK, RestartBreak
    <2>5. Sent'
        BY SMTT(30) DEF Sent, TypeOK, StepOK, RestartBreak
    <2>6. QED
        BY <2>2, <2>3, <2>4, <2>5
<1>5. QED
    BY <1>1, <1>2, <1>3, <1>4, Parts DEF RestartBreak

(* The host begins, from any point of an upgrade that did not get beyond START, *)
LEMMA HostStartKeeps ==
    ASSUME IInv, ImageFits, UNCHANGED fault, NEW m \in Image, HostStart(m)
    PROVE  IInv'
<1>1. TypeOK'
    BY SMTT(30) DEF IInv, TypeOK, HostStart, Request
<1>2. StepOK' /\ Numbers'
    BY SMTT(30) DEF IInv, TypeOK, StepOK, Numbers, HostStart
<1>3. ASSUME Orderly
      PROVE  Orderly' /\ (Committed' => Committed)
    <2> USE <1>3 DEF IInv, Orderly
    <2>1. RequestOK'
        BY SMTT(30) DEF RequestOK, StepOK, TypeOK, HostStart
    <2>2. Upgrading'
        BY SMTT(30) DEF Upgrading, StepOK, TypeOK, HostStart
    <2>3. Committed' => Committed /\ ~Writing'
        BY SMTT(30) DEF Committed, Finished, StepOK, TypeOK, Upgrading,
           HostStart
    <2>4. Counted'
        BY SMTT(30) DEF Counted, Accept, StepOK, TypeOK, HostStart
    <2>5. QED
        BY <2>1, <2>2, <2>3, <2>4 DEF Finished
<1>4. ASSUME Orderly, Built
      PROVE  Built'
    <2> USE <1>4 DEF IInv, Built
    <2>1. app' = app /\ (phase' = "stop" => phase = "stop" /\ img' = img)
        BY DEF HostStart
    <2>2. ImageOK'
        BY <1>3, <1>4, <2>1, ImageKept
    <2>3. NoHole' /\ Written'
        BY SMTT(30) DEF NoHole, Written, TypeOK, StepOK, HostStart
    <2>4. Ahead'
        BY SMTT(30) DEF Ahead, TypeOK, StepOK, HostStart
    <2>5. Sent'
        BY SMTT(30) DEF Sent, TypeOK, StepOK, HostStart
    <2>6. QED
        BY <2>2, <2>3, <2>4, <2>5
<1>5. QED
    BY <1>1, <1>2, <1>3, <1>4, Parts DEF HostStart

(* sends the next pack, *)
LEMMA HostPackKeeps ==
    ASSUME IInv, ImageFits, UNCHANGED fault, NEW i \in BOOLEAN, HostPack(i)
    PROVE  IInv'
<1>1. TypeOK'
    <2>1. req' \in Request /\ asked' \in BOOLEAN
        BY UpgradeAssumption, SMTT(30) DEF IInv, TypeOK, HostPack, Pack, Request
    <2>2. UNCHANGED <<flash, mode, packs, job, step, result, data, restart, reply, host, set, harm>>
        BY DEF HostPack
    <2>3. QED
        BY <2>1, <2>2, SMTT(30) DEF IInv, TypeOK
<1>2. StepOK' /\ Numbers'
    BY SMTT(30) DEF IInv, TypeOK, StepOK, Numbers, HostPack, Pack
<1>3. ASSUME Orderly
      PROVE  Orderly' /\ (Committed' => Committed)
    <2> USE <1>3 DEF IInv, Orderly
    <2>1. RequestOK'
        BY SMTT(30) DEF RequestOK, StepOK, TypeOK, HostPack, Pack
    <2>2. Upgrading'
        BY SMTT(30) DEF Upgrading, StepOK, TypeOK, HostPack, Pack
    <2>3. Committed' => Committed /\ ~Writing'
        BY SMTT(30) DEF Committed, Finished, StepOK, TypeOK, Upgrading, HostPack,
           Pack
    <2>4. Counted'
        BY SMTT(30) DEF Counted, Accept, StepOK, TypeOK, HostPack, Pack
    <2>5. QED
        BY <2>1, <2>2, <2>3, <2>4 DEF Finished
<1>4. ASSUME Orderly, Built
      PROVE  Built'
    <2> USE <1>4 DEF IInv, Built
    <2>1. app' = app /\ (phase' = "stop" => phase = "stop" /\ img' = img)
        BY DEF HostPack, Pack
    <2>2. ImageOK'
        BY <1>3, <1>4, <2>1, ImageKept
    <2>3. NoHole' /\ Written'
        BY SMTT(30) DEF NoHole, Written, TypeOK, StepOK, HostPack, Pack
    <2>4. Ahead'
        BY SMTT(30) DEF Ahead, TypeOK, StepOK, HostPack, Pack
    <2>5. Sent'
        BY SMTT(30) DEF Sent, TypeOK, StepOK, HostPack, Pack
    <2>6. QED
        BY <2>2, <2>3, <2>4, <2>5
<1>5. QED
    BY <1>1, <1>2, <1>3, <1>4, Parts DEF HostPack, Pack

(* sends STOP when it has counted the last: the image is whole. *)
LEMMA HostStopKeeps ==
    ASSUME IInv, ImageFits, UNCHANGED fault, HostStop
    PROVE  IInv'
<1>0. /\ UNCHANGED <<flash, mode, packs, job, step, result, data, restart, reply, set, harm>>
      /\ UNCHANGED <<img, next>> /\ asked' \in BOOLEAN
      /\ req = NONE /\ req' = [op |-> "STOP"] /\ phase' = "stop"
      /\ (phase = "packs" /\ next > IMAGE) \/ phase = "stop"
    BY DEF HostStop
<1>1. TypeOK'
    BY <1>0, SMTT(30) DEF IInv, TypeOK, Request
<1>2. StepOK' /\ Numbers'
    BY <1>0 DEF IInv, StepOK, Numbers
<1>3. ASSUME Orderly
      PROVE  Orderly'
    <2>1. RequestOK' /\ Counted'
        BY <1>0, <1>3 DEF Orderly, RequestOK, Counted
    <2>2. Upgrading'
        BY <1>0, <1>3 DEF Orderly, Upgrading
    <2>3. ~Writing
        BY <1>0, <1>3, SMTT(30) DEF IInv, TypeOK, Numbers, Orderly, Finished, Committed,
           Counted, Request
    <2>4. QED
        BY <1>0, <2>1, <2>2, <2>3 DEF Orderly, Finished
<1>4. ASSUME Orderly, Built
      PROVE  Built'
    <2>1. Whole(img) /\ img \in Image
        BY <1>0, <1>4, SMTT(30) DEF IInv, TypeOK, Whole, Orderly, Counted, Built, Sent, ImageOK
    <2>2. ImageOK'
        BY <1>0, <2>1 DEF ImageOK, SomeWhole, Whole
    <2>3. NoHole' /\ Written' /\ Ahead' /\ Sent'
        BY <1>0, <1>4 DEF Built, NoHole, Written, Ahead, Sent
    <2>4. QED
        BY <2>2, <2>3 DEF Built
<1>5. QED
    BY <1>0, <1>1, <1>2, <1>3, <1>4, Parts

(* Who strays may send what he likes: the device counts as before. *)
LEMMA HostStraysKeeps ==
    ASSUME IInv, ImageFits, UNCHANGED fault, HostStrays
    PROVE  IInv'
<1>1. /\ UNCHANGED <<flash, mode, packs, job, step, result, data, restart, reply, host, set>>
      /\ asked' \in BOOLEAN /\ harm' = harm \cup {"stray"}
    BY DEF HostStrays
<1>2. req' \in Request
    <2>1. \A m \in Image, n \in Block : Pack(m, n, 0, TRUE) \in Request
        BY DEF Pack, Request
    <2>2. [op |-> "STOP"] \in Request
        BY DEF Request
    <2>3. QED
        BY <2>1, <2>2 DEF HostStrays
<1>3. TypeOK'
    <2>1. harm' \subseteq Harm
        BY <1>1 DEF IInv, TypeOK, Harm
    <2>2. QED
        BY <1>1, <1>2, <2>1, SMTT(30) DEF IInv, TypeOK
<1>4. StepOK' /\ Numbers'
    BY <1>1 DEF IInv, StepOK, Numbers
<1>5. QED
    BY <1>1, <1>3, <1>4 DEF IInv

(* Commands besides an upgrade commit to nothing. *)
LEMMA HostConfigKeeps ==
    ASSUME IInv, ImageFits, UNCHANGED fault, HostConfig
    PROVE  IInv'
<1>1. TypeOK'
    <2>1. req' \in Request
        BY DEF HostConfig, Request
    <2>2. asked' \in BOOLEAN
        BY DEF HostConfig
    <2>3. UNCHANGED <<flash, mode, packs, job, step, result, data, restart, reply, host, set, harm>>
        BY DEF HostConfig
    <2>4. QED
        BY <2>1, <2>2, <2>3, SMTT(30) DEF IInv, TypeOK
<1>2. StepOK' /\ Numbers'
    BY SMTT(30) DEF IInv, TypeOK, StepOK, Numbers, HostConfig
<1>3. ASSUME Orderly
      PROVE  Orderly' /\ (Committed' => Committed)
    <2> USE <1>3 DEF IInv, Orderly
    <2>1. RequestOK'
        BY SMTT(30) DEF RequestOK, StepOK, TypeOK, HostConfig
    <2>2. Upgrading'
        BY SMTT(30) DEF Upgrading, StepOK, TypeOK, HostConfig
    <2>3. Committed' => Committed /\ ~Writing'
        BY SMTT(30) DEF Committed, Finished, StepOK, TypeOK, Upgrading,
           HostConfig
    <2>4. Counted'
        BY SMTT(30) DEF Counted, Accept, StepOK, TypeOK, HostConfig
    <2>5. QED
        BY <2>1, <2>2, <2>3, <2>4 DEF Finished
<1>4. ASSUME Orderly, Built
      PROVE  Built'
    <2> USE <1>4 DEF IInv, Built
    <2>1. app' = app /\ (phase' = "stop" => phase = "stop" /\ img' = img)
        BY DEF HostConfig
    <2>2. ImageOK'
        BY <1>3, <1>4, <2>1, ImageKept
    <2>3. NoHole' /\ Written'
        BY SMTT(30) DEF NoHole, Written, TypeOK, StepOK, HostConfig
    <2>4. Ahead'
        BY SMTT(30) DEF Ahead, TypeOK, StepOK, HostConfig
    <2>5. Sent'
        BY SMTT(30) DEF Sent, TypeOK, StepOK, HostConfig
    <2>6. QED
        BY <2>2, <2>3, <2>4, <2>5
<1>5. QED
    BY <1>1, <1>2, <1>3, <1>4, Parts DEF HostConfig

(* A host that gives up leaves what it had begun. *)
LEMMA HostGivesUpKeeps ==
    ASSUME IInv, ImageFits, UNCHANGED fault, HostGivesUp
    PROVE  IInv'
<1>1. TypeOK'
    BY SMTT(30) DEF IInv, TypeOK, HostGivesUp
<1>2. StepOK' /\ Numbers'
    BY SMTT(30) DEF IInv, TypeOK, StepOK, Numbers, HostGivesUp
<1>3. ASSUME Orderly
      PROVE  Orderly' /\ (Committed' => Committed)
    <2> USE <1>3 DEF IInv, Orderly
    <2>1. RequestOK'
        BY SMTT(30) DEF RequestOK, StepOK, TypeOK, HostGivesUp
    <2>2. Upgrading'
        BY SMTT(30) DEF Upgrading, StepOK, TypeOK, HostGivesUp
    <2>3. Committed' => Committed /\ ~Writing'
        BY SMTT(30) DEF Committed, Finished, StepOK, TypeOK, HostGivesUp
    <2>4. Counted'
        BY SMTT(30) DEF Counted, Accept, StepOK, TypeOK, HostGivesUp
    <2>5. QED
        BY <2>1, <2>2, <2>3, <2>4 DEF Finished
<1>4. ASSUME Orderly, Built
      PROVE  Built'
    <2> USE <1>4 DEF IInv, Built
    <2>1. app' = app /\ (phase' = "stop" => phase = "stop" /\ img' = img)
        BY DEF HostGivesUp
    <2>2. ImageOK'
        BY <1>3, <1>4, <2>1, ImageKept
    <2>3. NoHole' /\ Written'
        BY SMTT(30) DEF NoHole, Written, TypeOK, StepOK, HostGivesUp
    <2>4. Ahead'
        BY SMTT(30) DEF Ahead, TypeOK, StepOK, HostGivesUp
    <2>5. Sent'
        BY SMTT(30) DEF Sent, TypeOK, StepOK, HostGivesUp
    <2>6. QED
        BY <2>2, <2>3, <2>4, <2>5
<1>5. QED
    BY <1>1, <1>2, <1>3, <1>4, Parts DEF HostGivesUp

(* The host counts a pack by the reply to it, or to an older one of the same image. *)
LEMMA HostHearsKeeps ==
    ASSUME IInv, ImageFits, UNCHANGED fault, HostHears
    PROVE  IInv'
<1>1. TypeOK'
    <2>1. /\ asked' \in BOOLEAN /\ reply' = NONE
          /\ UNCHANGED <<flash, mode, packs, job, step, result, data, restart, req, img, set, harm>>
        BY DEF HostHears
    <2>2. /\ phase' \in {"idle", "start", "packs", "stop"}
          /\ next' \in 1..IMAGE+1
        BY SMTT(30) DEF IInv, HostHears, TypeOK
    <2>3. QED
        BY <2>1, <2>2, SMTT(30) DEF IInv, TypeOK
<1>2. StepOK' /\ Numbers'
    BY SMTT(30) DEF IInv, TypeOK, StepOK, Numbers, HostHears
<1>3. ASSUME Orderly
      PROVE  Orderly' /\ (Committed' => Committed)
    <2> USE <1>3 DEF IInv, Orderly
    <2>1. RequestOK'
        BY SMTT(30) DEF RequestOK, StepOK, TypeOK, Counted, Upgrading, Request,
           Accept, HostHears
    <2>2. Upgrading'
        BY SMTT(30) DEF Upgrading, StepOK, TypeOK, Accept, HostHears
    <2>3. Committed' => Committed /\ ~Writing'
        BY SMTT(30) DEF Committed, Finished, StepOK, TypeOK, Accept, HostHears
    <2>4. Counted'
        BY SMTT(30) DEF Counted, Accept, StepOK, TypeOK, RequestOK, Upgrading,
           HostHears
    <2>5. QED
        BY <2>1, <2>2, <2>3, <2>4 DEF Finished
<1>4. ASSUME Orderly, Built
      PROVE  Built'
    <2> USE <1>4 DEF IInv, Built
    <2>1. app' = app /\ (phase' = "stop" => phase = "stop" /\ img' = img)
        BY DEF HostHears
    <2>2. ImageOK'
        BY <1>3, <1>4, <2>1, ImageKept
    <2>3. NoHole' /\ Written'
        BY SMTT(30) DEF NoHole, Written, TypeOK, StepOK, HostHears
    <2>4. Ahead'
        BY SMTT(30) DEF Ahead, TypeOK, StepOK, HostHears
    <2>5. Sent'
        BY SMTT(30) DEF Sent, TypeOK, StepOK, Accept, Orderly, Counted,
           RequestOK, Upgrading, HostHears
    <2>6. QED
        BY <2>2, <2>3, <2>4, <2>5
<1>5. QED
    BY <1>1, <1>2, <1>3, <1>4, Parts DEF HostHears

(* A lost request changes no part of the flash, *)
LEMMA LoseRequestKeeps ==
    ASSUME IInv, ImageFits, UNCHANGED fault, LoseRequest
    PROVE  IInv'
<1>1. TypeOK'
    <2>1. asked' \in BOOLEAN /\ req' = NONE
        BY DEF LoseRequest
    <2>2. UNCHANGED <<flash, mode, packs, job, step, result, data, restart, reply, host, set, harm>>
        BY DEF LoseRequest
    <2>3. QED
        BY <2>1, <2>2, SMTT(30) DEF IInv, TypeOK
<1>2. StepOK' /\ Numbers'
    BY SMTT(30) DEF IInv, TypeOK, StepOK, Numbers, LoseRequest
<1>3. ASSUME Orderly
      PROVE  Orderly' /\ (Committed' => Committed)
    <2> USE <1>3 DEF IInv, Orderly
    <2>1. RequestOK'
        BY SMTT(30) DEF RequestOK, StepOK, TypeOK, LoseRequest
    <2>2. Upgrading'
        BY SMTT(30) DEF Upgrading, StepOK, TypeOK, LoseRequest
    <2>3. Committed' => Committed /\ ~Writing'
        BY SMTT(30) DEF Committed, Finished, StepOK, TypeOK, LoseRequest
    <2>4. Counted'
        BY SMTT(30) DEF Counted, Accept, StepOK, TypeOK, LoseRequest
    <2>5. QED
        BY <2>1, <2>2, <2>3, <2>4 DEF Finished
<1>4. ASSUME Orderly, Built
      PROVE  Built'
    <2> USE <1>4 DEF IInv, Built
    <2>1. app' = app /\ (phase' = "stop" => phase = "stop" /\ img' = img)
        BY DEF LoseRequest
    <2>2. ImageOK'
        BY <1>3, <1>4, <2>1, ImageKept
    <2>3. NoHole' /\ Written'
        BY SMTT(30) DEF NoHole, Written, TypeOK, StepOK, LoseRequest
    <2>4. Ahead'
        BY SMTT(30) DEF Ahead, TypeOK, StepOK, LoseRequest
    <2>5. Sent'
        BY SMTT(30) DEF Sent, TypeOK, StepOK, LoseRequest
    <2>6. QED
        BY <2>2, <2>3, <2>4, <2>5
<1>5. QED
    BY <1>1, <1>2, <1>3, <1>4, Parts DEF LoseRequest

(* nor does a lost reply. *)
LEMMA LoseReplyKeeps ==
    ASSUME IInv, ImageFits, UNCHANGED fault, LoseReply
    PROVE  IInv'
<1>1. TypeOK'
    <2>1. asked' \in BOOLEAN /\ reply' = NONE
        BY DEF LoseReply
    <2>2. UNCHANGED <<flash, mode, packs, job, step, result, data, restart, req, host, set, harm>>
        BY DEF LoseReply
    <2>3. QED
        BY <2>1, <2>2, SMTT(30) DEF IInv, TypeOK
<1>2. StepOK' /\ Numbers'
    BY SMTT(30) DEF IInv, TypeOK, StepOK, Numbers, LoseReply
<1>3. ASSUME Orderly
      PROVE  Orderly' /\ (Committed' => Committed)
    <2> USE <1>3 DEF IInv, Orderly
    <2>1. RequestOK'
        BY SMTT(30) DEF RequestOK, StepOK, TypeOK, LoseReply
    <2>2. Upgrading'
        BY SMTT(30) DEF Upgrading, StepOK, TypeOK, LoseReply
    <2>3. Committed' => Committed /\ ~Writing'
        BY SMTT(30) DEF Committed, Finished, StepOK, TypeOK, LoseReply
    <2>4. Counted'
        BY SMTT(30) DEF Counted, Accept, StepOK, TypeOK, LoseReply
    <2>5. QED
        BY <2>1, <2>2, <2>3, <2>4 DEF Finished
<1>4. ASSUME Orderly, Built
      PROVE  Built'
    <2> USE <1>4 DEF IInv, Built
    <2>1. app' = app /\ (phase' = "stop" => phase = "stop" /\ img' = img)
        BY DEF LoseReply
    <2>2. ImageOK'
        BY <1>3, <1>4, <2>1, ImageKept
    <2>3. NoHole' /\ Written'
        BY SMTT(30) DEF NoHole, Written, TypeOK, StepOK, LoseReply
    <2>4. Ahead'
        BY SMTT(30) DEF Ahead, TypeOK, StepOK, LoseReply
    <2>5. Sent'
        BY SMTT(30) DEF Sent, TypeOK, StepOK, LoseReply
    <2>6. QED
        BY <2>2, <2>3, <2>4, <2>5
<1>5. QED
    BY <1>1, <1>2, <1>3, <1>4, Parts DEF LoseReply

-------------------------------------------------------------------------------
(* A new device meets the invariant, *)
LEMMA InitIInv == Init => IInv
<1> SUFFICES ASSUME Init
             PROVE  IInv
    OBVIOUS
<1>1. TypeOK
    <2>1. app \in [Block -> Content] /\ cfg \in Config /\ data \in Config /\ netdata \in Config
        BY DEF Init, Content, Config, ErasedConfig, FFFF
    <2>2. /\ mode = "iap" /\ pack_num = 1 /\ pack_offset = 0 /\ skew = 0 /\ job = NONE
          /\ step = "idle" /\ result = 0 /\ net = "idle" /\ req = NONE /\ reply = NONE
          /\ phase = "idle" /\ img \in Image /\ next = 1 /\ set = erased /\ fault \in Fault
          /\ harm = {}
        BY DEF Init
    <2>3. asked \in BOOLEAN /\ error \in BOOLEAN
        BY DEF Init
    <2>4. QED
        BY <2>1, <2>2, <2>3, SMTT(30) DEF TypeOK, Steps
<1>2. StepOK /\ Numbers
    BY DEF Init, StepOK, Numbers
<1>3. Orderly
    BY DEF Init, Orderly, RequestOK, Upgrading, Finished, Counted, ErasedConfig, FFFF
<1>4. Built
    BY SMTT(30) DEF Init, Built, ImageOK, NoHole, Written, Ahead, Sent, Committed,
       ErasedConfig, FFFF
<1>5. QED
    BY <1>1, <1>2, <1>3, <1>4 DEF IInv

(* and every step of the command task, the restart, the host and the faults      *)
(* keeps it.                                                                      *)
LEMMA StepIInv == ImageFits /\ IInv /\ [Next /\ UNCHANGED fault]_<<vars, fault>> => IInv'
<1> SUFFICES ASSUME ImageFits, IInv, [Next /\ UNCHANGED fault]_<<vars, fault>>
             PROVE  IInv'
    OBVIOUS
<1>1. CASE CommandTask /\ UNCHANGED fault
    <2>1. CASE CommandReset
        BY <1>1, <2>1, BootKeeps DEF CommandReset
    <2>2. QED
        BY <1>1, <2>1, TakeConfigKeeps, TakePackKeeps, EraseKeeps, WordsKeeps,
           LastKeeps, ReturnEarlyKeeps, MarkReplyKeeps DEF CommandTask
<1>2. CASE RestartTask /\ UNCHANGED fault
    <2>1. CASE RestartReset
        BY <1>2, <2>1, BootKeeps DEF RestartReset
    <2>2. QED
        BY <1>2, <2>1, RestartReadKeeps, RestartEraseKeeps, RestartWordsKeeps,
           RestartLastKeeps, RestartBreakKeeps DEF RestartTask
<1>3. CASE Host /\ UNCHANGED fault
    BY <1>3, HostStartKeeps, HostPackKeeps, HostStopKeeps, HostStraysKeeps,
       HostConfigKeeps, HostGivesUpKeeps, HostHearsKeeps DEF Host
<1>4. CASE Faults /\ UNCHANGED fault
    BY <1>4, BootKeeps, LoseRequestKeeps, LoseReplyKeeps DEF Faults, PowerFails, AppCrashes
<1>5. CASE UNCHANGED <<vars, fault>>
    <2>1. TypeOK'
        BY <1>5, SMTT(30) DEF IInv, TypeOK
    <2>2. StepOK' /\ Numbers'
        BY <1>5 DEF IInv, StepOK, Numbers
    <2>3. Orderly => Orderly'
        BY <1>5 DEF Orderly, RequestOK, Upgrading, Finished, Committed, Counted
    <2>4. Built => Built'
        <3>1. ImageOK => ImageOK'
            BY <1>5, ImageKept DEF Committed
        <3>2. QED
            BY <1>5, <3>1 DEF Built, NoHole, Written, Ahead, Sent
    <2>5. harm' = harm
        BY <1>5
    <2>6. QED
        BY <2>1, <2>2, <2>3, <2>4, <2>5, Parts
<1>6. QED
    BY <1>1, <1>2, <1>3, <1>4, <1>5 DEF Next

LEMMA Invariance ==
    ASSUME ImageFits
    PROVE  Spec => []IInv
<1>1. IInv /\ [Next /\ UNCHANGED fault]_<<vars, fault>> => IInv'
    BY StepIInv
<1>2. QED
    BY <1>1, InitIInv, PTL DEF Spec

(* The types, among them that pack_num and pack_offset never pass the image,      *)
(* whatever fails and whoever sends.                                             *)
THEOREM TypeCorrect ==
    ASSUME ImageFits
    PROVE  Spec => []TypeOK
<1>1. IInv => TypeOK
    BY DEF IInv
<1>2. QED
    BY <1>1, Invariance, PTL

(* Until a pack or a START was acknowledged in vain, or a host strayed, what runs  *)
(* is a whole image of one version, whichever fault of power, heartbeat, erase,    *)
(* word or connection met its upgrade, and wherever.                              *)
THEOREM WholeImageRuns ==
    ASSUME ImageFits
    PROVE  Spec => []RunsWholeImage
<1>1. IInv => RunsWholeImage
    BY DEF IInv, Built, ImageOK, Committed, RunsWholeImage
<1>2. QED
    BY <1>1, Invariance, PTL

(* Until then the flag by which main decides says 1 over whole images only.        *)
THEOREM FlagIsTrue ==
    ASSUME ImageFits
    PROVE  Spec => []FlagMeansWhole
<1>1. IInv => FlagMeansWhole
    BY DEF IInv, Built, ImageOK, Committed, FlagMeansWhole
<1>2. QED
    BY <1>1, Invariance, PTL

(* Until then what the host counts as accepted lies in flash, in order, with any   *)
(* loss, any repetition and any reset.                                            *)
THEOREM CountedIsWritten ==
    ASSUME ImageFits
    PROVE  Spec => []AcceptedIsWritten
<1>1. IInv => AcceptedIsWritten
    <2> SUFFICES ASSUME IInv, phase \in {"packs", "stop"}, harm = {},
                        NEW b \in Block, b <= next - 1
                 PROVE  app[b] = <<img, b>>
        BY DEF AcceptedIsWritten, IInv, TypeOK
    <2>1. next \in Nat /\ Orderly /\ Built
        BY DEF IInv, TypeOK
    <2>2. CASE phase = "stop"
        BY <2>1, <2>2 DEF Built, ImageOK, Whole
    <2>3. CASE phase = "packs"
        <3>1. b < next /\ ~Resetting
            BY <2>1, <2>3, SMTT(30) DEF Orderly, Counted
        <3>2. QED
            BY <2>1, <2>3, <3>1 DEF Built, Sent
    <2>4. QED
        BY <2>2, <2>3
<1>2. QED
    BY <1>1, Invariance, PTL

(* No step erases or programs the application that runs, not even after packs that *)
(* did not reach flash, unless START left the mark of the old image or a host       *)
(* strayed.                                                                       *)
THEOREM RunningImageStays ==
    ASSUME ImageFits
    PROVE  Spec => RunningImageKept
<1>1. ASSUME IInv, [Next /\ UNCHANGED fault]_<<vars, fault>>
      PROVE  [mode = "app" /\ harm \subseteq {"unwritten"} => app' = app]_vars
    <2> SUFFICES ASSUME mode = "app", harm \subseteq {"unwritten"}, Next
                 PROVE  app' = app
        BY <1>1
    <2>1. job # NONE => job.op # "PACK"
        BY <1>1 DEF IInv, Orderly, Upgrading
    <2>2. At("words") \/ At("last") => job # NONE
        BY <1>1 DEF IInv, StepOK
    <2>3. CASE CommandTask
        <3>1. CASE Erase
            BY <1>1, <2>1, <3>1, EraseEffect
        <3>2. CASE Words \/ Last
            BY <2>1, <2>2, <3>2 DEF Words, Last
        <3>3. CASE Refuse \/ Break
            BY <3>3 DEF Refuse, Break, ReturnEarly
        <3>4. QED
            BY <2>3, <3>1, <3>2, <3>3 DEF CommandTask, TakeConfig, TakePack, MarkReply,
               CommandReset, Boot
    <2>4. CASE RestartTask
        <3>1. CASE RestartErase
            BY <1>1, <3>1, RecordErase DEF RestartErase
        <3>2. QED
            BY <2>4, <3>1 DEF RestartTask, RestartRead, RestartWords, RestartLast,
               RestartBreak, RestartReset, Boot
    <2>5. CASE Host
        BY <2>5 DEF Host, HostStart, HostPack, HostStop, HostStrays, HostConfig,
           HostGivesUp, HostHears
    <2>6. CASE Faults
        BY <2>6 DEF Faults, PowerFails, AppCrashes, LoseRequest, LoseReply, Boot
    <2>7. QED
        BY <2>3, <2>4, <2>5, <2>6 DEF Next
<1>2. QED
    BY <1>1, Invariance, PTL DEF Spec, RunningImageKept

-------------------------------------------------------------------------------
(* While nothing but packs goes wrong, no harm is done and no write gives up; the  *)
(* settings are in the record or, while it is rewritten, in what is to be written. *)
Harmless ==
    /\ net = "idle" /\ error = FALSE /\ skew = 0 /\ harm = {}
    /\ Asked("PACK") => req.rest = 0
    /\ Doing("PACK") => job.rest = 0

SettingsInv ==
    Calm =>
        /\ Harmless
        /\ job = NONE \/ Doing("PACK") => cfg.ip = set
        /\ job # NONE /\ job.op # "PACK" =>
              data.ip = set /\ (step \in {"last", "reply", "reset"} => cfg.ip = set)

LEMMA InitSettings == Init => SettingsInv
BY DEF Init, SettingsInv, Harmless, ErasedConfig

LEMMA CommandSettings ==
    ASSUME ImageFits, IInv, SettingsInv, UNCHANGED fault, CommandTask, Calm
    PROVE  SettingsInv'
<1>0. /\ cfg \in Config /\ data \in Config /\ Calm' /\ Harmless
      /\ \A op \in ConfigOp : op # "PACK"
      /\ (job = NONE <=> step = "idle") /\ job \in Request \cup {NONE}
      /\ req \in Request \cup {NONE}
    BY DEF IInv, TypeOK, Calm, StepOK, ConfigOp, SettingsInv
<1> USE DEF SettingsInv, Harmless
<1>1. CASE TakeConfig
    <2>1. /\ req # NONE /\ req \in Request /\ req.op \in ConfigOp
          /\ job = NONE /\ job' = req /\ step' = "erase" /\ req' = NONE
          /\ data' = Configured(req) /\ UNCHANGED <<net, error, harm>> /\ skew' = 0
          /\ set' = IF req.op = "SETIP" THEN req.ip ELSE set
        BY <1>0, <1>1 DEF TakeConfig
    <2>2. data'.ip = set'
        BY <1>0, <2>1 DEF Configured, ConfigOp, Config
    <2>3. QED
        BY <1>0, <2>1, <2>2 DEF ConfigOp
<1>2. CASE TakePack
    BY <1>0, <1>2 DEF TakePack
<1>3. CASE Erase
    BY <1>0, <1>3, EraseEffect DEF Erase
<1>4. CASE Words
    BY <1>0, <1>4 DEF Words, Config
<1>5. CASE Last
    BY <1>0, <1>5 DEF Last, Config
<1>6. CASE Refuse \/ Break
    BY <1>0, <1>6 DEF Refuse, Break, Aligned, Calm
<1>7. CASE MarkReply
    BY <1>0, <1>7 DEF MarkReply
<1>8. CASE CommandReset
    BY <1>0, <1>8 DEF CommandReset, Boot, Request
<1>9. QED
    BY <1>1, <1>2, <1>3, <1>4, <1>5, <1>6, <1>7, <1>8 DEF CommandTask

LEMMA HostSettings ==
    ASSUME SettingsInv, UNCHANGED fault, Host, Calm
    PROVE  SettingsInv'
<1>1. Harmless /\ Calm' /\ "odd" \notin fault /\ "stray" \notin fault
    BY DEF SettingsInv, Calm
<1>2. UNCHANGED <<cfg, error, skew, job, step, data, net, set, harm>>
    BY <1>1 DEF Host, HostStart, HostPack, HostStop, HostStrays, HostConfig, HostGivesUp,
       HostHears
<1>3. req' # NONE /\ req'.op = "PACK" => req'.rest = 0
    <2>1. CASE \E intact \in BOOLEAN : HostPack(intact)
        BY <1>1, <2>1 DEF HostPack, Pack
    <2>2. CASE \E m \in Image : HostStart(m)
        BY <2>2 DEF HostStart
    <2>3. CASE HostConfig \/ HostStop
        BY <2>3 DEF HostConfig, HostStop
    <2>4. CASE HostGivesUp \/ HostHears \/ HostStrays
        BY <1>1, <2>4 DEF HostGivesUp, HostHears, HostStrays, Harmless
    <2>5. QED
        BY <2>1, <2>2, <2>3, <2>4 DEF Host
<1>4. QED
    BY <1>1, <1>2, <1>3 DEF SettingsInv, Harmless

LEMMA StepSettings ==
    ASSUME ImageFits, IInv, SettingsInv, [Next /\ UNCHANGED fault]_<<vars, fault>>
    PROVE  SettingsInv'
<1> SUFFICES ASSUME Calm
             PROVE  SettingsInv'
    BY DEF SettingsInv, Calm
<1>1. net = "idle" /\ harm = {} /\ UNCHANGED fault
    BY DEF SettingsInv, Harmless
<1>2. CASE CommandTask
    BY <1>1, <1>2, CommandSettings
<1>3. CASE RestartTask
    BY <1>1, <1>3 DEF Calm, RestartTask, RestartRead, RestartErase, RestartWords,
       RestartLast, RestartBreak, RestartReset
<1>4. CASE Host
    BY <1>1, <1>4, HostSettings
<1>5. CASE Faults
    <2>1. ~AppCrashes
        BY <1>1 DEF IInv, Built, ImageOK, Committed, AppCrashes
    <2>2. QED
        BY <1>5, <2>1 DEF Calm, Faults, PowerFails, LoseRequest, LoseReply
<1>6. CASE UNCHANGED <<vars, fault>>
    BY <1>6 DEF SettingsInv, Harmless
<1>7. QED
    BY <1>2, <1>3, <1>4, <1>5, <1>6 DEF Next

(* The commands that rewrite the record for one field keep the other: STOP and     *)
(* START the settings, whatever is sent, refused and sent again between them.      *)
THEOREM SettingsAreKept ==
    ASSUME ImageFits
    PROVE  Spec => []SettingsKept
<1>1. IInv /\ SettingsInv /\ [Next /\ UNCHANGED fault]_<<vars, fault>> => SettingsInv'
    BY StepSettings
<1>2. SettingsInv => SettingsKept
    BY DEF SettingsInv, SettingsKept
<1>3. QED
    BY <1>1, <1>2, InitSettings, Invariance, PTL DEF Spec

===============================================================================
