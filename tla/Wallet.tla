------------------------------- MODULE Wallet -------------------------------
(***************************************************************************)
(* The key daemon's wallets: wallet_manager and the three kinds it holds,  *)
(* software wallets kept in encrypted files, a YubiHSM reached through its *)
(* connector and kept alive by a timer, and the Secure Enclave of a Mac.   *)
(*                                                                         *)
(* A key is a model value; a cipher is the password it was made with and   *)
(* the keys it holds.  Every command first locks everything when the       *)
(* daemon was idle for the timeout.  Writing a file may be refused, and    *)
(* the process may die half way through it.                                *)
(***************************************************************************)
EXTENDS Integers, FiniteSets

CONSTANTS
  SoftNames, HsmName, EnclaveName,   \* wallet names
  SoftKeys, HsmKeys, EnclaveKeys,    \* keys each kind can hold
  Setups,                            \* sets of hardware wallets a daemon has
  Timeout,                           \* unlock-timeout
  MaxPasswords

VARIABLES
  hardware,      \* this daemon's hardware wallets
  up,            \* the daemon runs
  wallets,       \* wallet_manager::wallets, by name
  files,         \* name.wallet in the wallet directory
  device,        \* keys on the hardware
  idle,          \* time since the last command, up to Timeout
  timer,         \* the keep-alive timer: armed, and a handler due
  given,         \* the password create last returned for a name
  acked,         \* keys the daemon said it holds
  used           \* whether the last command signed or revealed keys, and the
                 \* idle time before it

walletVars == <<hardware, up, wallets, files, device, idle, timer, given, acked, used>>

Names == SoftNames \cup {HsmName, EnclaveName}

NoWallet == [kind |-> "none", locked |-> TRUE, keys |-> {}, cipher |-> {}, pw |-> 0]

SoftWallet(pw, keys) == [kind |-> "soft", locked |-> TRUE, keys |-> {}, cipher |-> keys, pw |-> pw]

HsmWallet == [NoWallet EXCEPT !.kind = "hsm"]

EnclaveWallet == [NoWallet EXCEPT !.kind = "enclave", !.keys = device.enclave]

NoFile == [state |-> "none", pw |-> 0, keys |-> {}]

Torn == [NoFile EXCEPT !.state = "torn"]

File(w) == [state |-> "whole", pw |-> w.pw, keys |-> w.cipher]

NotUsed == [keyed |-> FALSE, idle |-> 0]

Exists(ws, n) == ws[n].kind # "none"

Open(ws, n) == Exists(ws, n) /\ ~ws[n].locked

(***************************************************************************)
(* The wallets.                                                            *)
(***************************************************************************)

EncryptKeys(w) == IF w.locked THEN w ELSE [w EXCEPT !.cipher = w.keys]

SoftLock(w) == [EncryptKeys(w) EXCEPT !.locked = TRUE, !.keys = {}]

HsmLock(w) == [w EXCEPT !.locked = TRUE, !.keys = {}]

EnclaveLock(w) == [w EXCEPT !.locked = TRUE]

LockWallet(w) ==
  CASE w.locked -> w
    [] ~w.locked /\ w.kind = "soft" -> SoftLock(w)
    [] ~w.locked /\ w.kind = "hsm" -> HsmLock(w)
    [] OTHER -> EnclaveLock(w)

LockOnlySoft(ws) == [n \in Names |-> IF ws[n].kind = "soft" THEN LockWallet(ws[n]) ELSE ws[n]]

LockAll(ws) == [n \in Names |-> LockWallet(ws[n])]

CheckPassword(w, p) == w.kind = "soft" => p = w.pw

\* Unlocking each kind; for the hardware "ok" says that the device and the
\* person in front of it agree.
SoftUnlock(w, p) == IF p = w.pw THEN [w EXCEPT !.locked = FALSE, !.keys = w.cipher] ELSE w

HsmKeyMap == device.hsm

HsmUnlock(w, ok) == IF ok THEN [w EXCEPT !.locked = FALSE, !.keys = HsmKeyMap] ELSE HsmLock(w)

EnclaveUnlock(w, ok) == IF ok THEN [w EXCEPT !.locked = FALSE] ELSE w

UnlockWallet(w, p, ok) ==
  CASE w.kind = "soft" -> SoftUnlock(w, p)
    [] w.kind = "hsm" -> HsmUnlock(w, ok)
    [] OTHER -> EnclaveUnlock(w, ok)

\* try_sign_digest gives a signature, gives none, or throws.
SoftSign(w, k) == IF k \in w.keys THEN "signed" ELSE "none"

HsmSign(w, k, ok) == CASE k \notin w.keys -> "none" [] k \in w.keys /\ ok -> "signed" [] OTHER -> "throws"

EnclaveSign(w, k, ok) == CASE k \notin w.keys -> "none" [] k \in w.keys /\ ok -> "signed" [] OTHER -> "throws"

TrySign(w, k, ok) ==
  CASE w.kind = "soft" -> SoftSign(w, k)
    [] w.kind = "hsm" -> HsmSign(w, k, ok)
    [] OTHER -> EnclaveSign(w, k, ok)

(***************************************************************************)
(* The manager.                                                            *)
(***************************************************************************)

CheckTimeout == IF idle >= Timeout THEN LockAll(wallets) ELSE wallets

\* A lock of the HSM cancels its timer, an unlock or an answered echo arms it.
Timer(t, ws, prime) ==
  IF prime THEN [t EXCEPT !.armed = TRUE]
  ELSE IF Open(wallets, HsmName) /\ wallets[HsmName].kind = "hsm" /\ ~Open(ws, HsmName)
       THEN [t EXCEPT !.armed = FALSE]
       ELSE t

\* What every command does besides its own work.
Command(ws, keys) ==
  /\ up
  /\ wallets' = ws
  /\ idle' = 0
  /\ used' = IF keys = {} THEN NotUsed ELSE [keyed |-> TRUE, idle |-> idle]

Refused(ws) ==
  /\ Command(ws, {})
  /\ timer' = Timer(timer, ws, FALSE)
  /\ UNCHANGED <<up, files, device, given, acked>>

\* The daemon is gone: wallets that had no file are gone with it.
Gone ==
  /\ up' = FALSE
  /\ wallets' = [n \in Names |-> NoWallet]
  /\ timer' = [armed |-> FALSE, due |-> FALSE]
  /\ acked' = [n \in Names |-> IF files'[n].state = "none" THEN {} ELSE acked[n]]
  /\ used' = NotUsed
  /\ UNCHANGED <<device, idle, given>>

\* save_wallet_file of wallet w under name n: written, refused, or cut short.
Save(n, ws, w, ackedKeys) ==
  \/ /\ Command([ws EXCEPT ![n] = EncryptKeys(w)], {})
     /\ files' = [files EXCEPT ![n] = File(EncryptKeys(w))]
     /\ acked' = [acked EXCEPT ![n] = ackedKeys]
     /\ timer' = Timer(timer, ws, FALSE)
     /\ UNCHANGED <<up, device, given>>
  \/ /\ Command([ws EXCEPT ![n] = EncryptKeys(w)], {})
     /\ acked' = [acked EXCEPT ![n] = @ \cap ackedKeys]
     /\ timer' = Timer(timer, ws, FALSE)
     /\ UNCHANGED <<up, files, device, given>>
  \/ /\ up
     /\ files' = [files EXCEPT ![n] = Torn]
     /\ Gone

\* create: a fresh password, a new file; whatever had the name is replaced.
Create(n) ==
  /\ given[n] < MaxPasswords
  /\ LET ws == CheckTimeout
         pw == given[n] + 1
         w  == SoftUnlock(SoftWallet(pw, {}), pw)
     IN \/ /\ files[n].state # "none"
           /\ Refused(ws)
        \/ /\ files[n].state = "none"
           /\ \/ Refused(ws)
              \/ /\ Command([ws EXCEPT ![n] = w], {})
                 /\ files' = [files EXCEPT ![n] = File(w)]
                 /\ timer' = IF wallets[n].kind = "hsm" THEN [timer EXCEPT !.armed = FALSE]
                             ELSE Timer(timer, ws, FALSE)
                 /\ given' = [given EXCEPT ![n] = pw]
                 /\ acked' = [acked EXCEPT ![n] = {}]
                 /\ UNCHANGED <<up, device>>
              \/ /\ up
                 /\ files' = [files EXCEPT ![n] = Torn]
                 /\ Gone

\* open: the wallet as its file has it, locked, in place of any of that name.
OpenFile(n, ws) == [ws EXCEPT ![n] = SoftWallet(files[n].pw, files[n].keys)]

OpenWallet(n) ==
  LET ws == CheckTimeout
  IN IF files[n].state = "whole" THEN Refused(OpenFile(n, ws)) ELSE Refused(ws)

\* list_wallets, lock_all and get_public_keys change nothing else.
ListWallets == Refused(CheckTimeout)

GetPublicKeys == (\E n \in Names : Open(CheckTimeout, n)) /\ Refused(CheckTimeout)

LockAllWallets == Refused(LockAll(wallets))

Lock(n) == Exists(wallets, n) /\ Refused([CheckTimeout EXCEPT ![n] = LockWallet(@)])

\* The private keys of a software wallet, for its password.
ListKeys(n, p) ==
  LET ws == CheckTimeout
  IN IF Open(ws, n) /\ CheckPassword(ws[n], p) /\ ws[n].kind = "soft"
     THEN /\ Command(ws, ws[n].keys)
          /\ timer' = Timer(timer, ws, FALSE)
          /\ UNCHANGED <<up, files, device, given, acked>>
     ELSE Refused(ws)

\* unlock opens the file first when the name is not known.
Unlock(n, p, ok) ==
  LET ws == IF ~Exists(CheckTimeout, n) /\ files[n].state = "whole"
            THEN OpenFile(n, CheckTimeout) ELSE CheckTimeout
      w  == UnlockWallet(ws[n], p, ok)
  IN IF Exists(ws, n) /\ ~Open(ws, n) /\ ~w.locked
     THEN /\ Command([ws EXCEPT ![n] = w], {})
          /\ timer' = Timer(timer, ws, w.kind = "hsm")
          /\ UNCHANGED <<up, files, device, given, acked>>
     ELSE Refused(ws)

\* A software wallet changes its keys and then saves.
SoftImport(n, ws, k) ==
  IF k \in ws[n].keys THEN Refused(ws)
  ELSE Save(n, ws, [ws[n] EXCEPT !.keys = @ \cup {k}], acked[n] \cup {k})

SoftRemove(n, ws, k) ==
  IF k \notin ws[n].keys THEN Refused(ws)
  ELSE Save(n, ws, [ws[n] EXCEPT !.keys = @ \ {k}], acked[n] \ {k})

SoftCreateKey(n, ws, k) ==
  /\ k \in SoftKeys \ ws[n].keys
  /\ SoftImport(n, ws, k)

\* A device changes its own keys; an HSM that fails is locked.
DeviceChanges(n, ws, keys, d) ==
  /\ Command([ws EXCEPT ![n].keys = keys], {})
  /\ device' = d
  /\ acked' = [acked EXCEPT ![n] = IF keys \subseteq ws[n].keys THEN @ \cap keys ELSE keys]
  /\ timer' = Timer(timer, ws, FALSE)
  /\ UNCHANGED <<up, files, given>>

HsmCreateKey(n, ws, k, ok) ==
  IF ~ok THEN Refused([ws EXCEPT ![n] = HsmLock(@)])
  ELSE /\ k \in HsmKeys \ device.hsm
       /\ DeviceChanges(n, ws, ws[n].keys \cup {k}, [device EXCEPT !.hsm = @ \cup {k}])

EnclaveCreateKey(n, ws, k, ok) ==
  IF ~ok THEN Refused(ws)
  ELSE /\ k \in EnclaveKeys \ device.enclave
       /\ DeviceChanges(n, ws, ws[n].keys \cup {k}, [device EXCEPT !.enclave = @ \cup {k}])

EnclaveRemove(n, ws, k, ok) ==
  IF k \notin ws[n].keys \/ ~ok THEN Refused(ws)
  ELSE DeviceChanges(n, ws, ws[n].keys \ {k}, [device EXCEPT !.enclave = @ \ {k}])

\* The HSM says it removed the key, and keeps it.
HsmRemove(ws) == Refused(ws)

\* import_key: only software wallets take a key from outside.
ImportKey(n, k) ==
  LET ws == CheckTimeout
  IN IF Open(ws, n) /\ ws[n].kind = "soft" THEN SoftImport(n, ws, k) ELSE Refused(ws)

RemoveKey(n, p, k, ok) ==
  LET ws == CheckTimeout
  IN CASE ~Open(ws, n) \/ ~CheckPassword(ws[n], p) -> Refused(ws)
       [] ws[n].kind = "soft" -> SoftRemove(n, ws, k)
       [] ws[n].kind = "enclave" -> EnclaveRemove(n, ws, k, ok)
       [] OTHER -> HsmRemove(ws)

CreateKey(n, k, ok) ==
  LET ws == CheckTimeout
  IN CASE ~Open(ws, n) -> Refused(ws)
       [] ws[n].kind = "soft" -> SoftCreateKey(n, ws, k)
       [] ws[n].kind = "hsm" -> HsmCreateKey(n, ws, k, ok)
       [] OTHER -> EnclaveCreateKey(n, ws, k, ok)

\* The unlocked wallets are asked for each key; an exception of one ends it all,
\* and an HSM that failed has locked itself.
SignWith(keys, ok) ==
  LET ws == CheckTimeout
      answers(k) == {TrySign(ws[n], k, ok) : n \in {m \in Names : Open(ws, m)}}
      threw(n) == Open(ws, n) /\ \E k \in keys : TrySign(ws[n], k, ok) = "throws"
  IN IF \A k \in keys : "signed" \in answers(k)
     THEN /\ Command(ws, keys)
          /\ timer' = Timer(timer, ws, FALSE)
          /\ UNCHANGED <<up, files, device, given, acked>>
     ELSE \/ /\ \E k \in keys : answers(k) \subseteq {"none"}
             /\ Refused(ws)
          \/ /\ \E n \in Names : threw(n)
             /\ Refused([n \in Names |->
                           IF threw(n) /\ ws[n].kind = "hsm" THEN HsmLock(ws[n]) ELSE ws[n]])

SignTransaction(keys, ok) == SignWith(keys, ok)

SignDigest(k, ok) == SignWith({k}, ok)

(***************************************************************************)
(* Timers, the person, and the process.                                    *)
(***************************************************************************)

TimerFires ==
  /\ timer.armed
  /\ timer' = [armed |-> FALSE, due |-> TRUE]
  /\ used' = NotUsed
  /\ UNCHANGED <<up, wallets, files, device, idle, given, acked>>

\* The keep-alive handler: nothing when the session is closed, and an HSM that
\* does not echo is locked.  When the wallet was destroyed it runs on freed
\* memory.
Keepalive(ok) ==
  /\ timer.due
  /\ LET hsm == wallets[HsmName]
         after == [timer EXCEPT !.due = FALSE]
     IN \/ /\ hsm.kind # "hsm" /\ ~ok
           /\ UNCHANGED files
           /\ Gone
        \/ /\ hsm.kind # "hsm" \/ hsm.locked
           /\ timer' = after
           /\ used' = NotUsed
           /\ UNCHANGED <<up, wallets, files, device, idle, given, acked>>
        \/ /\ hsm.kind = "hsm" /\ ~hsm.locked
           /\ timer' = [after EXCEPT !.armed = ok]
           /\ wallets' = IF ok THEN wallets ELSE [wallets EXCEPT ![HsmName] = LockWallet(@)]
           /\ used' = NotUsed
           /\ UNCHANGED <<up, files, device, idle, given, acked>>

\* Someone deletes a wallet file.
RemoveFile(n) ==
  /\ files[n].state # "none"
  /\ files' = [files EXCEPT ![n] = NoFile]
  /\ acked' = IF Exists(wallets, n) THEN acked ELSE [acked EXCEPT ![n] = {}]
  /\ used' = NotUsed
  /\ UNCHANGED <<up, wallets, device, idle, timer, given>>

Tick ==
  /\ idle < Timeout
  /\ idle' = idle + 1
  /\ used' = NotUsed
  /\ UNCHANGED <<up, wallets, files, device, timer, given, acked>>

\* The daemon ends, also because its lock file was removed.
Quit == up /\ UNCHANGED files /\ Gone

\* plugin_initialize, holding the directory's lock.
Start ==
  /\ ~up
  /\ up' = TRUE
  /\ wallets' = [n \in Names |-> CASE n = HsmName /\ n \in hardware -> HsmWallet
                                   [] n = EnclaveName /\ n \in hardware -> EnclaveWallet
                                   [] OTHER -> NoWallet]
  /\ idle' = 0
  /\ used' = NotUsed
  /\ UNCHANGED <<files, device, timer, given, acked>>

WalletInit ==
  /\ hardware \in Setups
  /\ up = FALSE
  /\ wallets = [n \in Names |-> NoWallet]
  /\ files = [n \in Names |-> NoFile]
  /\ device = [hsm |-> {}, enclave |-> {}]
  /\ idle = 0
  /\ timer = [armed |-> FALSE, due |-> FALSE]
  /\ given = [n \in Names |-> 0]
  /\ acked = [n \in Names |-> {}]
  /\ used = NotUsed

AllKeys == SoftKeys \cup HsmKeys \cup EnclaveKeys

WalletNext ==
  /\ UNCHANGED hardware
  /\ \/ \E n \in SoftNames \cup (hardware \cap {HsmName}) : Create(n)
     \/ \E n \in Names : OpenWallet(n)
     \/ ListWallets
     \/ GetPublicKeys
     \/ LockAllWallets
     \/ \E n \in Names : Lock(n)
     \/ \E n \in Names : \E p \in {0, given[n]} : ListKeys(n, p)
     \/ \E n \in Names, ok \in BOOLEAN : \E p \in {0, given[n]} : Unlock(n, p, ok)
     \/ \E n \in Names, k \in SoftKeys : ImportKey(n, k)
     \/ \E n \in Names, k \in AllKeys, ok \in BOOLEAN : \E p \in {0, given[n]} : RemoveKey(n, p, k, ok)
     \/ \E n \in Names, k \in AllKeys, ok \in BOOLEAN : CreateKey(n, k, ok)
     \/ \E k, l \in AllKeys, ok \in BOOLEAN : SignTransaction({k, l}, ok)
     \/ \E k \in AllKeys, ok \in BOOLEAN : SignDigest(k, ok)
     \/ TimerFires
     \/ \E ok \in BOOLEAN : Keepalive(ok)
     \/ \E n \in Names : RemoveFile(n)
     \/ Tick
     \/ Quit
     \/ Start

WalletSpec == WalletInit /\ [][WalletNext]_walletVars

(***************************************************************************)
(* What the daemon promises.  A key it said it holds is in the wallet's    *)
(* file, which the password it gave opens, unless the file was deleted or  *)
(* cut short, and in the wallet itself however often that was locked, and  *)
(* a key on a device is on the device.  A key is used or revealed only by  *)
(* a command that came within the timeout of the one before.  An unlocked  *)
(* HSM has its keep-alive pending.  (soft_wallet_impl::save_wallet_file,   *)
(* soft_wallet::lock, wallet_manager::check_timeout,                       *)
(* yubihsm_wallet_impl::prime_keepalive_timer.)                            *)
(***************************************************************************)
WalletPromise ==
  /\ \A n \in SoftNames :
       /\ files[n].state = "whole" => acked[n] \subseteq files[n].keys /\ files[n].pw = given[n]
       /\ wallets[n].kind = "soft" =>
            /\ acked[n] \subseteq IF wallets[n].locked THEN wallets[n].cipher ELSE wallets[n].keys
            /\ wallets[n].pw = given[n]
  /\ acked[EnclaveName] \subseteq device.enclave
  /\ used.keyed => used.idle < Timeout
  /\ Open(wallets, HsmName) /\ wallets[HsmName].kind = "hsm" => timer.armed \/ timer.due
====
